---- MODULE Spec2Model ----
(***************************************************************************)
(* Package lifecycle of PlakarKorp/pkg: the package identity (package.go), *)
(* the flat directory store (flat.go) and the lifecycle manager            *)
(* (manager.go).                                                           *)
(*                                                                         *)
(* A Go string is a sequence of one-character strings, so that parsing,    *)
(* formatting and prefix/suffix tests are computed character by character. *)
(* A Go error is a string naming it; Nil is the nil error.                 *)
(***************************************************************************)
EXTENDS Integers, Sequences, FiniteSets, TLC

VARIABLES
    pkgdir,     \* FlatBackend.pkgdir: the entry names, in directory order
    cachedir,   \* FlatBackend.cachedir: the set of entry names
    last        \* the most recent call: its inputs, its result, the store before it

vars == <<pkgdir, cachedir, last>>

(***************************************************************************)
(* Bounds of the model.                                                    *)
(***************************************************************************)
\* at most MaxStaged hidden staging files are ever present in pkgdir
MaxStaged == 3

(***************************************************************************)
(* Strings.                                                                *)
(***************************************************************************)
Nil == "nil"
Empty == << >>

DigitChars == <<"0", "1", "2", "3", "4", "5", "6", "7", "8", "9">>
UpperChars == <<"A", "B", "C", "D", "E", "F", "G", "H", "I", "J", "K", "L", "M",
                "N", "O", "P", "Q", "R", "S", "T", "U", "V", "W", "X", "Y", "Z">>
LowerChars == <<"a", "b", "c", "d", "e", "f", "g", "h", "i", "j", "k", "l", "m",
                "n", "o", "p", "q", "r", "s", "t", "u", "v", "w", "x", "y", "z">>

Range(s) == {s[i] : i \in 1..Len(s)}

Digits == Range(DigitChars)
Uppers == Range(UpperChars)
Lowers == Range(LowerChars)
IsDigit(c) == c \in Digits
IsUpper(c) == c \in Uppers
IsLower(c) == c \in Lowers

\* the byte order of the characters a semantic version may hold: '-' < digits < upper < lower
ByteOrder == <<"-">> \o DigitChars \o UpperChars \o LowerChars
OrdOf == [c \in Range(ByteOrder) |-> CHOOSE i \in 1..Len(ByteOrder) : ByteOrder[i] = c]
Ord(c) == IF c \in DOMAIN OrdOf THEN OrdOf[c] ELSE 0

\* strings.HasPrefix, strings.HasSuffix, strings.TrimSuffix, strings.CutSuffix
HasPrefix(s, p) == Len(s) >= Len(p) /\ SubSeq(s, 1, Len(p)) = p
HasSuffix(s, p) == Len(s) >= Len(p) /\ SubSeq(s, Len(s) - Len(p) + 1, Len(s)) = p
TrimSuffix(s, p) == IF HasSuffix(s, p) THEN SubSeq(s, 1, Len(s) - Len(p)) ELSE s

\* the index of the first c in s, 0 when there is none
RECURSIVE IndexFrom(_, _, _)
IndexFrom(s, c, i) == IF i > Len(s) THEN 0
                      ELSE IF s[i] = c THEN i
                      ELSE IndexFrom(s, c, i + 1)
IndexOf(s, c) == IndexFrom(s, c, 1)
\* the index of the last c in s, 0 when there is none
RECURSIVE LastIndexFrom(_, _, _)
LastIndexFrom(s, c, i) == IF i < 1 THEN 0
                          ELSE IF s[i] = c THEN i
                          ELSE LastIndexFrom(s, c, i - 1)
LastIndexOf(s, c) == LastIndexFrom(s, c, Len(s))

\* strings.Split(s, c) for a one-character separator
RECURSIVE Split(_, _)
Split(s, c) ==
    LET i == IndexOf(s, c)
    IN  IF i = 0 THEN <<s>>
        ELSE <<SubSeq(s, 1, i - 1)>> \o Split(SubSeq(s, i + 1, Len(s)), c)

\* filepath.Base: the last element of a path, trailing separators dropped
RECURSIVE TrimSlashes(_)
TrimSlashes(s) == IF Len(s) > 0 /\ s[Len(s)] = "/"
                  THEN TrimSlashes(SubSeq(s, 1, Len(s) - 1))
                  ELSE s
Base(path) ==
    IF path = Empty THEN <<".">>
    ELSE LET p == TrimSlashes(path)
             b == SubSeq(p, LastIndexOf(p, "/") + 1, Len(p))
         IN  IF b = Empty THEN <<"/">> ELSE b

(***************************************************************************)
(* golang.org/x/mod/semver, as package.go and manager.go use it.           *)
(***************************************************************************)
\* semver.parseInt: the length of the leading decimal number of v, 0 when
\* v starts with none or the number has a leading zero
RECURSIVE DigitRun(_)
DigitRun(v) == IF Len(v) > 0 /\ IsDigit(v[1]) THEN 1 + DigitRun(Tail(v)) ELSE 0
IntLen(v) == LET i == DigitRun(v)
             IN  IF i > 1 /\ v[1] = "0" THEN 0 ELSE i

RECURSIVE ToNat(_)
ToNat(d) == IF d = Empty THEN 0
            ELSE 10 * ToNat(SubSeq(d, 1, Len(d) - 1)) + (Ord(d[Len(d)]) - 2)

IsIdentChar(c) == IsUpper(c) \/ IsLower(c) \/ IsDigit(c) \/ c = "-"
IsNum(s) == s # Empty /\ \A i \in 1..Len(s) : IsDigit(s[i])
\* semver.isBadNum: a numeric identifier with a leading zero
IsBadNum(s) == IsNum(s) /\ Len(s) > 1 /\ s[1] = "0"

\* semver.parsePrerelease on the text after the '-': dot separated identifiers
IsPrerelease(s) ==
    /\ \A i \in 1..Len(s) : IsIdentChar(s[i]) \/ s[i] = "."
    /\ LET ids == Split(s, ".")
       IN  \A k \in 1..Len(ids) : ids[k] # Empty /\ ~IsBadNum(ids[k])
\* semver.parseBuild on the text after the '+'
IsBuild(s) ==
    /\ \A i \in 1..Len(s) : IsIdentChar(s[i]) \/ s[i] = "."
    /\ LET ids == Split(s, ".")
       IN  \A k \in 1..Len(ids) : ids[k] # Empty

Drop(s, n) == SubSeq(s, n + 1, Len(s))

\* semver.parse: [ok, major, minor, patch, prerelease]
Unparsed == [ok |-> FALSE, major |-> 0, minor |-> 0, patch |-> 0, prerelease |-> Empty]
ParseTail(major, minor, patch, v) ==
    LET plus == IndexOf(v, "+")
        pre  == IF Len(v) > 0 /\ v[1] = "-"
                THEN (IF plus = 0 THEN Drop(v, 1) ELSE SubSeq(v, 2, plus - 1))
                ELSE Empty
        hasPre == Len(v) > 0 /\ v[1] = "-"
        rest == IF hasPre THEN (IF plus = 0 THEN Empty ELSE Drop(v, plus - 1)) ELSE v
    IN  IF hasPre /\ ~IsPrerelease(pre) THEN Unparsed
        ELSE IF rest # Empty /\ (rest[1] # "+" \/ ~IsBuild(Drop(rest, 1))) THEN Unparsed
        ELSE [ok |-> TRUE, major |-> major, minor |-> minor, patch |-> patch,
              prerelease |-> pre]
ParsePatch(major, minor, v) ==
    LET n == IntLen(v)
    IN  IF n = 0 THEN Unparsed
        ELSE ParseTail(major, minor, ToNat(SubSeq(v, 1, n)), Drop(v, n))
ParseMinor(major, v) ==
    LET n == IntLen(v)
        rest == Drop(v, n)
    IN  IF n = 0 THEN Unparsed
        ELSE IF rest = Empty
             THEN [ok |-> TRUE, major |-> major, minor |-> ToNat(SubSeq(v, 1, n)),
                   patch |-> 0, prerelease |-> Empty]
        ELSE IF rest[1] # "." THEN Unparsed
        ELSE ParsePatch(major, ToNat(SubSeq(v, 1, n)), Drop(rest, 1))
SemverParse(v) ==
    IF v = Empty \/ v[1] # "v" THEN Unparsed
    ELSE LET n == IntLen(Drop(v, 1))
             rest == Drop(v, 1 + n)
         IN  IF n = 0 THEN Unparsed
             ELSE IF rest = Empty
                  THEN [ok |-> TRUE, major |-> ToNat(SubSeq(v, 2, 1 + n)), minor |-> 0,
                        patch |-> 0, prerelease |-> Empty]
             ELSE IF rest[1] # "." THEN Unparsed
             ELSE ParseMinor(ToNat(SubSeq(v, 2, 1 + n)), Drop(rest, 1))

\* semver.IsValid
SemverIsValid(v) == SemverParse(v).ok

CompareInt(x, y) == IF x = y THEN 0 ELSE IF x < y THEN -1 ELSE 1

\* byte-wise comparison of two strings
RECURSIVE CompareBytes(_, _)
CompareBytes(x, y) ==
    IF x = Empty /\ y = Empty THEN 0
    ELSE IF x = Empty THEN -1
    ELSE IF y = Empty THEN 1
    ELSE IF Ord(x[1]) # Ord(y[1]) THEN CompareInt(Ord(x[1]), Ord(y[1]))
    ELSE CompareBytes(Tail(x), Tail(y))

\* semver.comparePrerelease on the identifier lists: a release is above every
\* prerelease, numeric identifiers are below the others and compare as numbers
RECURSIVE CompareIdents(_, _)
CompareIdents(xs, ys) ==
    IF xs = << >> /\ ys = << >> THEN 0
    ELSE IF xs = << >> THEN -1
    ELSE IF ys = << >> THEN 1
    ELSE LET dx == Head(xs)
             dy == Head(ys)
         IN  IF dx = dy THEN CompareIdents(Tail(xs), Tail(ys))
             ELSE IF IsNum(dx) # IsNum(dy) THEN (IF IsNum(dx) THEN -1 ELSE 1)
             ELSE IF IsNum(dx) /\ Len(dx) # Len(dy) THEN CompareInt(Len(dx), Len(dy))
             ELSE CompareBytes(dx, dy)
ComparePrerelease(x, y) ==
    IF x = y THEN 0
    ELSE IF x = Empty THEN 1
    ELSE IF y = Empty THEN -1
    ELSE CompareIdents(Split(x, "."), Split(y, "."))

\* semver.Compare on the two parsed versions: an invalid version is below
\* every valid one
CompareParsed(pv, pw) ==
    IF ~pv.ok /\ ~pw.ok THEN 0
    ELSE IF ~pv.ok THEN -1
    ELSE IF ~pw.ok THEN 1
    ELSE IF pv.major # pw.major THEN CompareInt(pv.major, pw.major)
    ELSE IF pv.minor # pw.minor THEN CompareInt(pv.minor, pw.minor)
    ELSE IF pv.patch # pw.patch THEN CompareInt(pv.patch, pw.patch)
    ELSE ComparePrerelease(pv.prerelease, pw.prerelease)

\* semver.Compare
SemverCompare(v, w) == CompareParsed(SemverParse(v), SemverParse(w))

(***************************************************************************)
(* Package identity (package.go).                                          *)
(***************************************************************************)
ErrBadPackageName == "ErrBadPackageName"

PtarExt == <<".", "p", "t", "a", "r">>

\* the zero value of Package
ZeroPackage == [Name |-> Empty, Version |-> Empty, Architecture |-> Empty,
                OperatingSystem |-> Empty]

isNameChar(c) == IsUpper(c) \/ IsLower(c) \/ IsDigit(c) \/ c = "-"
\* a variant of isOsArchChar that lets '-' through, as isNameChar does
isOsArchCharWithDash(c) == IsUpper(c) \/ IsLower(c) \/ IsDigit(c) \/ c = "-"
isOsArchChar(c) == IsUpper(c) \/ IsLower(c) \/ IsDigit(c)

\* Package.Validate: Nil, or the error wrapping ErrBadPackageName
Validate(pkg) ==
    IF pkg.Name = Empty THEN ErrBadPackageName
    ELSE IF \E i \in 1..Len(pkg.Name) : ~isNameChar(pkg.Name[i]) THEN ErrBadPackageName
    ELSE IF ~SemverIsValid(pkg.Version) THEN ErrBadPackageName
    ELSE IF \E i \in 1..Len(pkg.OperatingSystem) : ~isOsArchChar(pkg.OperatingSystem[i])
         THEN ErrBadPackageName
    ELSE IF \E i \in 1..Len(pkg.Architecture) : ~isOsArchChar(pkg.Architecture[i])
         THEN ErrBadPackageName
    ELSE Nil

\* Package.parseName: the error, and the receiver as the call leaves it
parseNameOf(name) ==
    IF ~HasSuffix(name, PtarExt) THEN [err |-> ErrBadPackageName, pkg |-> ZeroPackage]
    ELSE LET atoms == Split(TrimSuffix(name, PtarExt), "_")
         IN  IF Len(atoms) # 4 THEN [err |-> ErrBadPackageName, pkg |-> ZeroPackage]
             ELSE LET pkg == [Name |-> atoms[1], Version |-> atoms[2],
                              OperatingSystem |-> atoms[3], Architecture |-> atoms[4]]
                  IN  [err |-> Validate(pkg), pkg |-> pkg]

\* the names of the model's packages, parsed once
Known == {n \o <<"_">> \o v \o <<"_">> \o o \o <<"_">> \o a \o PtarExt :
              n \in {<<"s", "3">>, <<"f", "s">>},
              v \in {<<"v", "1">>, <<"v", "2">>, <<"v", "1", "0">>},
              o \in {<<"l", "i", "n", "u", "x">>},
              a \in {<<"l", "i", "n", "u", "x">>, <<"a", "m", "d", "6", "4">>}}
Parsed == [n \in Known |-> parseNameOf(n)]
parseName(name) == IF name \in Known THEN Parsed[name] ELSE parseNameOf(name)

\* Package.Filename: fmt.Sprintf("%s_%s_%s_%s.ptar", ...) with the arguments of the source
Filename(p) ==
    p.Name \o <<"_">> \o p.Version \o <<"_">> \o p.OperatingSystem \o <<"_">>
        \o p.OperatingSystem \o PtarExt

(***************************************************************************)
(* The flat store (flat.go).  A store value is [pkgdir, cachedir, trace];  *)
(* an operation returns the store it leaves, with its error in err.  trace *)
(* lists the calls the operation made on the store and the outside world.  *)
(***************************************************************************)
ErrNotExist == "ErrNotExist"
ErrExist == "ErrExist"

Ret(s, e) == [pkgdir |-> s.pkgdir, cachedir |-> s.cachedir, trace |-> s.trace, err |-> e]
Emit(s, ev) == [s EXCEPT !.trace = Append(@, ev)]

RemoveEntry(dir, name) == SelectSeq(dir, LAMBDA e : e # name)
\* a variant of the hidden-file test that lets every entry through
IsHiddenNever(name) == FALSE
IsHidden(name) == HasPrefix(name, <<".">>)
Hidden(dir) == {e \in Range(dir) : IsHidden(e)}

\* FlatBackend.List(name): the elements the iterator yields to a consumer that
\* never stops, over the entries ReadDir returned; an element with err # Nil
\* carries a nil package
\* FlatBackend.List, what one entry yields once its name is parsed: the parse
\* error when there is one, and then, nothing skipping the rest of the loop
\* body, the package when the filter lets it through
\* a variant of the filter of List that keeps the names that start with name
listEntryByPrefix(r, name) ==
    (IF r.err # Nil THEN <<[pkg |-> ZeroPackage, err |-> r.err]>> ELSE << >>)
        \o (IF name # Empty /\ ~HasPrefix(r.pkg.Name, name)
            THEN << >>
            ELSE <<[pkg |-> r.pkg, err |-> Nil]>>)

listEntry(r, name) ==
    (IF r.err # Nil THEN <<[pkg |-> ZeroPackage, err |-> r.err]>> ELSE << >>)
        \o (IF name # Empty /\ r.pkg.Name # name
            THEN << >>
            ELSE <<[pkg |-> r.pkg, err |-> Nil]>>)

RECURSIVE List(_, _)
List(dirents, name) ==
    IF dirents = << >> THEN << >>
    ELSE IF IsHidden(Head(dirents)) THEN List(Tail(dirents), name)
    ELSE listEntry(parseName(Head(dirents)), name) \o List(Tail(dirents), name)

\* a variant of unload that removes the file and leaves the extraction directory
unloadLeavesExtraction(s, pkgfile, extracted) ==
    [pkgdir |-> RemoveEntry(s.pkgdir, pkgfile),
     cachedir |-> s.cachedir,
     trace |-> s.trace,
     err |-> IF pkgfile \in Range(s.pkgdir) THEN Nil ELSE ErrNotExist]

\* FlatBackend.unload: os.Remove of the file, then os.RemoveAll of the directory
unload(s, pkgfile, extracted) ==
    LET err == IF pkgfile \in Range(s.pkgdir) THEN Nil ELSE ErrNotExist
    IN  [pkgdir |-> RemoveEntry(s.pkgdir, pkgfile),
         cachedir |-> IF extracted # Empty THEN s.cachedir \ {extracted} ELSE s.cachedir,
         trace |-> s.trace,
         err |-> err]

\* a variant of Unload that removes the artifact and keeps the extraction
\* directory
UnloadArtifactOnly(s, pkg) == unload(Emit(s, "Unload"), Filename(pkg), Empty)

\* FlatBackend.Unload
Unload(s, pkg) ==
    unload(Emit(s, "Unload"), Filename(pkg), TrimSuffix(Filename(pkg), PtarExt))

\* os.CreateTemp / os.MkdirTemp: prefix followed by a string no entry has yet
FreshName(taken, prefix) ==
    prefix \o <<DigitChars[CHOOSE k \in 2..Len(DigitChars) :
                    /\ (prefix \o <<DigitChars[k]>>) \notin taken
                    /\ \A j \in 2..(k - 1) : (prefix \o <<DigitChars[j]>>) \in taken]>>

ExtractPrefix == <<".", "e", "x", "t", "r", "a", "c", "t", "-">>

\* FlatBackend.extract(destDir, ptar): opens the archive, exports it into a
\* fresh .extract-* directory of cachedir and renames the content to destDir;
\* the deferred RemoveAll drops the temporary directory on every path after
\* MkdirTemp
extract(s, destDir, fault) ==
    IF fault = "extract" THEN Ret(s, "ErrExtract")
    ELSE LET tmpdir == FreshName(s.cachedir, ExtractPrefix)
             made == s.cachedir \cup {tmpdir}
         IN  IF fault = "export"
             THEN [Ret(s, "ErrExport") EXCEPT !.cachedir = made \ {tmpdir}]
             ELSE IF destDir \in made
             THEN [Ret(s, ErrExist) EXCEPT !.cachedir = made \ {tmpdir}]
             ELSE [Ret(s, Nil) EXCEPT !.cachedir = (made \cup {destDir}) \ {tmpdir}]

\* FlatBackend.loadmanifest: the outcome of reading and validating manifest.yaml
loadmanifest(fault) == IF fault = "manifest" THEN "ErrManifest" ELSE Nil

\* FlatBackend.preloadhook, when set
preloadhook(fault) == IF fault = "prehook" THEN "ErrPreLoadHook" ELSE Nil

\* FlatBackend.Load
\* FlatBackend.Load from the return of extract on: x is the store extract
\* left, with its error; every failure unloads the staged file tmp and the
\* extraction directory and returns the error of the step that failed
loadExtracted(x, tmp, extracted, canonical, fault) ==
    IF x.err # Nil
    THEN [unload(x, tmp, extracted) EXCEPT !.err = x.err]
    ELSE IF loadmanifest(fault) # Nil
    THEN [unload(x, tmp, extracted) EXCEPT !.err = loadmanifest(fault)]
    ELSE IF preloadhook(fault) # Nil
    THEN [unload(x, tmp, extracted) EXCEPT !.err = preloadhook(fault)]
    ELSE IF fault = "link" \/ canonical \in Range(x.pkgdir)
    THEN [unload(x, tmp, extracted)
              EXCEPT !.err = IF fault = "link" THEN "ErrLink" ELSE ErrExist]
    ELSE [Ret(x, Nil) EXCEPT !.pkgdir = Append(@, canonical)]

\* FlatBackend.Load from the return of os.CreateTemp on: tmp is the staged file
loadStaged(s, tmp, extracted, canonical, fault) ==
    IF fault = "copy" THEN Ret([s EXCEPT !.pkgdir = Append(@, tmp)], "ErrCopy")
    ELSE loadExtracted(extract([s EXCEPT !.pkgdir = Append(@, tmp)], extracted, fault),
                       tmp, extracted, canonical, fault)

\* FlatBackend.Load
Load(s0, pkg, fault) ==
    IF fault = "createtemp" \/ "/" \in Range(pkg.Name)
    THEN Ret(Emit(s0, "Load"), "ErrCreateTemp")
    ELSE loadStaged(Emit(s0, "Load"),
                    FreshName(Range(s0.pkgdir), <<".">> \o pkg.Name \o <<"-">>),
                    TrimSuffix(Filename(pkg), PtarExt), Filename(pkg), fault)

(***************************************************************************)
(* The lifecycle manager (manager.go).                                     *)
(***************************************************************************)
ErrInvalidOptions == "ErrInvalidOptions"
ErrAlreadyInstalled == "ErrAlreadyInstalled"

\* runtime.GOOS, runtime.GOARCH of the build
GOOS == <<"l", "i", "n", "u", "x">>
GOARCH == <<"a", "m", "d", "6", "4">>

\* Manager.preadd, the comparison of the target with an installed version
\* when one of Upgrade and Downgrade is set
compareBranch(cmp, opts) ==
    IF cmp >= 0 /\ ~opts.Downgrade THEN "reject"
    ELSE IF cmp <= 0 /\ ~opts.Upgrade THEN "reject"
    ELSE "unload"

\* a variant in which, without flags, only the same version is refused
preaddDecisionSameVersionOnly(pkg, version, opts) ==
    IF opts.AllowMultipleVersions
    THEN (IF pkg.Version = version THEN "reject" ELSE "continue")
    ELSE IF ~opts.Replace /\ ~opts.Upgrade /\ ~opts.Downgrade
    THEN (IF pkg.Version = version THEN "reject" ELSE "continue")
    ELSE IF opts.Replace THEN "unload"
    ELSE compareBranch(SemverCompare(version, pkg.Version), opts)

\* a variant in which Replace evicts only the versions older than the target
preaddDecisionReplaceOlder(pkg, version, opts) ==
    IF opts.AllowMultipleVersions
    THEN (IF pkg.Version = version THEN "reject" ELSE "continue")
    ELSE IF ~opts.Replace /\ ~opts.Upgrade /\ ~opts.Downgrade THEN "reject"
    ELSE IF opts.Replace
    THEN (IF SemverCompare(version, pkg.Version) > 0 THEN "unload" ELSE "continue")
    ELSE compareBranch(SemverCompare(version, pkg.Version), opts)

\* a variant in which AllowMultipleVersions evicts the other versions
preaddDecisionMultiEvicts(pkg, version, opts) ==
    IF opts.AllowMultipleVersions
    THEN (IF pkg.Version = version THEN "reject" ELSE "unload")
    ELSE IF ~opts.Replace /\ ~opts.Upgrade /\ ~opts.Downgrade THEN "reject"
    ELSE IF opts.Replace THEN "unload"
    ELSE compareBranch(SemverCompare(version, pkg.Version), opts)

\* a variant in which AllowMultipleVersions lets the same version through
preaddDecisionMultiDuplicates(pkg, version, opts) ==
    IF opts.AllowMultipleVersions THEN "continue"
    ELSE IF ~opts.Replace /\ ~opts.Upgrade /\ ~opts.Downgrade THEN "reject"
    ELSE IF opts.Replace THEN "unload"
    ELSE compareBranch(SemverCompare(version, pkg.Version), opts)

\* a variant whose comparisons are strict, so that an equal version is evicted
strictBranch(cmp, opts) ==
    IF cmp > 0 /\ ~opts.Downgrade THEN "reject"
    ELSE IF cmp < 0 /\ ~opts.Upgrade THEN "reject"
    ELSE "unload"
preaddDecisionStrict(pkg, version, opts) ==
    IF opts.AllowMultipleVersions
    THEN (IF pkg.Version = version THEN "reject" ELSE "continue")
    ELSE IF ~opts.Replace /\ ~opts.Upgrade /\ ~opts.Downgrade THEN "reject"
    ELSE IF opts.Replace THEN "unload"
    ELSE strictBranch(SemverCompare(version, pkg.Version), opts)

\* Manager.preadd, what the loop body does with an installed package pkg:
\* it returns ErrAlreadyInstalled, goes on to the next one, or unloads pkg
preaddDecision(pkg, version, opts) ==
    IF opts.AllowMultipleVersions
    THEN (IF pkg.Version = version THEN "reject" ELSE "continue")
    ELSE IF ~opts.Replace /\ ~opts.Upgrade /\ ~opts.Downgrade THEN "reject"
    ELSE IF opts.Replace THEN "unload"
    ELSE compareBranch(SemverCompare(version, pkg.Version), opts)

\* Manager.preadd, the loop over the elements List(name) yields; it ends at
\* the first return
RECURSIVE preaddLoop(_, _, _, _)
\* one turn of the loop, decision being what the body does with the package:
\* the store and error the turn returns with, or err = "next" and the store
\* the loop goes on with
preaddStep(s, pkg, decision) ==
    IF decision = "reject" THEN Ret(s, ErrAlreadyInstalled)
    ELSE IF decision = "continue" THEN Ret(s, "next")
    ELSE IF Unload(s, pkg).err # Nil THEN Unload(s, pkg)
    ELSE Ret(Unload(s, pkg), "next")

preaddLoop(s, elems, version, opts) ==
    IF elems = << >> THEN Ret(s, Nil)
    ELSE IF Head(elems).err # Nil THEN Ret(s, Head(elems).err)
    ELSE LET step == preaddStep(s, Head(elems).pkg,
                                preaddDecision(Head(elems).pkg, version, opts))
         IN  IF step.err # "next" THEN step
             ELSE preaddLoop(step, Tail(elems), version, opts)

\* Manager.preadd
preadd(s, name, version, opts) ==
    preaddLoop(Emit(s, "List"), List(s.pkgdir, name), version, opts)

\* Manager.fetchbinary: the identity of the running platform, fetched and loaded
fetchbinary(s, name, version, fault) ==
    LET pkg == [Name |-> name, Version |-> version, Architecture |-> GOARCH,
                OperatingSystem |-> GOOS]
    IN  IF fault = "fetch"
        THEN Ret(Emit(s, "fetchbinary"), "ErrFetch")
        ELSE Load(Emit(s, "fetchbinary"), pkg, fault)

\* a variant that refuses Upgrade with Downgrade and nothing else
invalidOptionsUpDownOnly(opts) ==
    opts.Upgrade /\ opts.Downgrade

\* Manager.Add, the option sets it refuses
invalidOptions(opts) ==
    \/ opts.Upgrade /\ opts.Downgrade
    \/ opts.Replace /\ (opts.Upgrade \/ opts.Downgrade)
    \/ opts.AllowMultipleVersions /\ (opts.Upgrade \/ opts.Downgrade \/ opts.Replace)

\* Manager.Add, implicit fetch, from the return of preadd on: policy is the
\* store preadd left, with its error
addFetched(policy, name, version, fault) ==
    IF policy.err # Nil THEN policy
    ELSE fetchbinary(policy, name, version, fault)

\* Manager.Add, implicit fetch, once name and version are resolved
addImplicit(s, name, version, opts, fault) ==
    addFetched(preadd(s, name, version, opts), name, version, fault)

\* Manager.Add, local file, from the return of preadd on
addOpened(local, pkg, fault) ==
    IF local.err # Nil THEN local
    ELSE IF fault = "open" THEN Ret(Emit(local, "open"), "ErrOpen")
    ELSE Load(Emit(local, "open"), pkg, fault)

\* Manager.Add, local file, from the return of parseName on
addLocal(s, parsed, opts, fault) ==
    IF parsed.err # Nil THEN Ret(s, parsed.err)
    ELSE addOpened(preadd(s, parsed.pkg.Name, parsed.pkg.Version, opts), parsed.pkg, fault)

\* Manager.Add from filepath.Base on
addBase(s, base, opts, env) ==
    IF opts.ImplicitFetch /\ ~HasSuffix(base, PtarExt)
    THEN (IF opts.Version # Empty
          THEN addImplicit(s, base, opts.Version, opts, env.fault)
          ELSE IF env.fault = "recipe" THEN Ret(Emit(s, "fetchrecipe"), "ErrFetch")
          ELSE addImplicit(Emit(s, "fetchrecipe"), env.recipe.Name, env.recipe.Version,
                           opts, env.fault))
    ELSE addLocal(s, parseName(base), opts, env.fault)

\* Manager.Add.  env.fault is the step of the call the outside world fails,
\* env.recipe the recipe the repository serves
Add(s, target, opts, env) ==
    IF invalidOptions(opts) THEN Ret(s, ErrInvalidOptions)
    ELSE addBase(s, Base(target), opts, env)

\* Manager.Del, the loop body applied to the elements List(target) yields
RECURSIVE DelLoop(_, _)
DelLoop(s, elems) ==
    IF elems = << >> THEN Ret(s, Nil)
    ELSE IF Head(elems).err # Nil THEN Ret(s, Head(elems).err)
    ELSE LET evicted == Unload(s, Head(elems).pkg)
         IN  IF evicted.err # Nil THEN evicted
             ELSE DelLoop(evicted, Tail(elems))

\* a variant of Del that enumerates whatever the target and the options are
DelUnchecked(s, target, opts) ==
    DelLoop(Emit(s, "List"), List(s.pkgdir, target))

\* Manager.Del
Del(s, target, opts) ==
    IF ~opts.All /\ target = Empty THEN Ret(s, ErrBadPackageName)
    ELSE DelLoop(Emit(s, "List"), List(s.pkgdir, target))

(***************************************************************************)
(* The calls the model makes.  A caller calls one operation of the manager *)
(* at a time and takes its result before the next call.                    *)
(***************************************************************************)
Names == {<<"s", "3">>, <<"f", "s">>}
\* a name nothing is installed under, that an installed name starts with
PrefixName == <<"s">>
Versions == {<<"v", "1">>, <<"v", "2">>, <<"v", "1", "0">>}

\* the path of a package file of the running platform, as a caller names it
TargetFile(name, version) ==
    name \o <<"_">> \o version \o <<"_">> \o GOOS \o <<"_">> \o GOARCH \o PtarExt

\* names no package can be parsed from
Malformed == { <<"s", "3">> \o PtarExt,
               <<"s", "3", "_", "1", "_">> \o GOOS \o <<"_">> \o GOARCH \o PtarExt }

\* one path with a directory, one bare name
InDir == <<"d", "/">> \o TargetFile(<<"s", "3">>, <<"v", "2">>)
Named == <<"s", "3">>
\* the version a caller asks for by name, when it asks for one
Asked == <<"v", "2">>

\* the packages of the model: three versions of one name, one of another
Packages == {[Name |-> Named, Version |-> v] : v \in Versions}
                \cup {[Name |-> <<"f", "s">>, Version |-> <<"v", "1">>]}

Files == {TargetFile(p.Name, p.Version) : p \in Packages} \cup {InDir}
Targets == Files \cup Malformed \cup {Named}

\* the recipe the repository serves for a name: its latest version
Latest == <<"v", "1", "0">>
NoRecipe == [Name |-> Empty, Version |-> Empty]

PolicyOptions == [Upgrade : BOOLEAN, Downgrade : BOOLEAN, Replace : BOOLEAN,
                  AllowMultipleVersions : BOOLEAN]
IsValidPolicy(o) ==
    /\ ~(o.Upgrade /\ o.Downgrade)
    /\ ~(o.Replace /\ (o.Upgrade \/ o.Downgrade))
    /\ ~(o.AllowMultipleVersions /\ (o.Upgrade \/ o.Downgrade \/ o.Replace))

AddOptions(o, version, implicit) ==
    [Version |-> version, Upgrade |-> o.Upgrade, Downgrade |-> o.Downgrade,
     Replace |-> o.Replace, AllowMultipleVersions |-> o.AllowMultipleVersions,
     ImplicitFetch |-> implicit]

\* the steps of Load the outside world can fail
LoadFaults == {"none", "copy", "extract", "manifest", "prehook", "link"}

\* the option sets a call on target is made with.  Add checks the policy
\* flags before it reads target, so the contradictory sets are tried on one
\* path and one name; Version is read on the implicit fetch path only, and
\* ImplicitFetch with a .ptar path is tried on one path
OptionsFor(target) ==
    LET policies == IF target \in {InDir, Named} THEN PolicyOptions
                    ELSE {o \in PolicyOptions : IsValidPolicy(o)}
    IN  {AddOptions(o, Empty, FALSE) : o \in policies}
            \cup (IF target = InDir
                  THEN {AddOptions(o, Empty, TRUE) : o \in policies}
                  ELSE {})
            \cup (IF target = Named
                  THEN {AddOptions(o, v, TRUE) : o \in policies, v \in {Empty, Asked}}
                  ELSE {})

NoFault(target) ==
    [fault |-> "none",
     recipe |-> IF target = Named THEN [Name |-> target, Version |-> Latest]
                ELSE NoRecipe]

\* what the outside world does during the call: a step is failed only in a
\* call that reaches it
EnvsReached(env, reached) ==
    {env}
        \cup {[fault |-> "recipe", recipe |-> NoRecipe] : x \in {"fetchrecipe"} \cap reached}
        \cup {[env EXCEPT !.fault = "fetch"] : x \in {"fetchbinary"} \cap reached}
        \cup {[env EXCEPT !.fault = "open"] : x \in {"open"} \cap reached}
        \cup {[env EXCEPT !.fault = f] :
                  f \in {g \in LoadFaults \ {"none"} : "Load" \in reached}}
EnvsFor(s, target, opts) ==
    EnvsReached(NoFault(target), Range(Add(s, target, opts, NoFault(target)).trace))

Store == [pkgdir |-> pkgdir, cachedir |-> cachedir, trace |-> << >>]

\* the name and version an Add call resolves its target to
TargetOf(target, opts, env) ==
    IF target \in Files
    THEN [Name |-> parseName(Base(target)).pkg.Name,
          Version |-> parseName(Base(target)).pkg.Version]
    ELSE IF target = Named /\ opts.ImplicitFetch
    THEN (IF opts.Version # Empty THEN [Name |-> target, Version |-> opts.Version]
          ELSE env.recipe)
    ELSE NoRecipe

NoCall == [op |-> "none"]

Returned(op, opts, id, r) ==
    /\ Cardinality(Hidden(r.pkgdir)) <= MaxStaged
    /\ pkgdir' = r.pkgdir
    /\ cachedir' = r.cachedir
    /\ last' = [op |-> op, opts |-> opts, name |-> id.Name, version |-> id.Version,
                err |-> r.err, trace |-> r.trace,
                pkgdir |-> pkgdir, cachedir |-> cachedir]

Init ==
    /\ pkgdir = << >>
    /\ cachedir = {}
    /\ last = NoCall

AddCall ==
    /\ last = NoCall
    /\ \E target \in Targets :
           \E opts \in OptionsFor(target) :
               \E env \in EnvsFor(Store, target, opts) :
                   Returned("Add", opts, TargetOf(target, opts, env),
                            Add(Store, target, opts, env))

DelCall ==
    /\ last = NoCall
    /\ \E target \in Names \cup {Empty, PrefixName}, all \in BOOLEAN :
           Returned("Del", [All |-> all], [Name |-> target, Version |-> Empty],
                    Del(Store, target, [All |-> all]))

\* the identities a caller of the store hands to Load and Unload
Identities == {[Name |-> p.Name, Version |-> p.Version, Architecture |-> GOARCH,
                OperatingSystem |-> GOOS] : p \in Packages}

LoadCall ==
    /\ last = NoCall
    /\ \E pkg \in Identities, fault \in LoadFaults :
           Returned("Load", [fault |-> fault], pkg, Load(Store, pkg, fault))

UnloadCall ==
    /\ last = NoCall
    /\ \E pkg \in Identities :
           Returned("Unload", << >>, pkg, Unload(Store, pkg))

\* Manager.List, FlatBackend.List: the iterator, fully consumed
ListCall ==
    /\ last = NoCall
    /\ \E name \in Names \cup {Empty} :
           last' = [op |-> "List", name |-> name, elems |-> List(pkgdir, name),
                    pkgdir |-> pkgdir, cachedir |-> cachedir]
    /\ UNCHANGED <<pkgdir, cachedir>>

\* the caller takes the result
Return ==
    /\ last # NoCall
    /\ last' = NoCall
    /\ UNCHANGED <<pkgdir, cachedir>>

\* the manager, called from an empty store
Next == AddCall \/ DelCall \/ Return

Spec == Init /\ [][Next]_vars

\* the store, called directly
NextStore == LoadCall \/ UnloadCall \/ ListCall \/ Return

SpecStore == Init /\ [][NextStore]_vars

(***************************************************************************)
(* The manager called with names and versions nobody has validated: a bare *)
(* target with an underscore, a requested version without the leading 'v', *)
(* a recipe whose version is no semantic version.                          *)
(***************************************************************************)
Underscored == <<"a", "_", "b">>
Unprefixed == <<"2">>
AnyTargets == {Named, Underscored, TargetFile(Named, <<"v", "1">>)}
AnyVersions == {Empty, Asked, Unprefixed}
AnyRecipes == {[Name |-> Named, Version |-> Latest],
               [Name |-> Named, Version |-> <<"1", "0">>]}

\* the option sets of a call on target: the policy flags Add accepts, and on
\* a bare name the implicit fetch with each version
AnyOptionsFor(target) ==
    IF HasSuffix(target, PtarExt)
    THEN {AddOptions(o, Empty, FALSE) : o \in {q \in PolicyOptions : IsValidPolicy(q)}}
    ELSE {AddOptions(o, v, TRUE) : o \in {q \in PolicyOptions : IsValidPolicy(q)},
                                   v \in AnyVersions}

\* the name and version Add resolves target to
ResolvedBy(base, opts, env) ==
    IF opts.ImplicitFetch /\ ~HasSuffix(base, PtarExt)
    THEN (IF opts.Version # Empty THEN [Name |-> base, Version |-> opts.Version]
          ELSE env.recipe)
    ELSE [Name |-> parseName(base).pkg.Name, Version |-> parseName(base).pkg.Version]

AddAnyCall ==
    /\ last = NoCall
    /\ \E target \in AnyTargets :
           \E opts \in AnyOptionsFor(target) :
               \E env \in {[fault |-> "none", recipe |-> r] : r \in AnyRecipes} :
                   Returned("Add", opts, ResolvedBy(Base(target), opts, env),
                            Add(Store, target, opts, env))

\* os.File.ReadDir returns the entries in directory order, which the file
\* system chooses and not the program: any entry may be the first one
DirOrders(dir) ==
    {<<dir[k]>> \o SelectSeq(dir, LAMBDA e : e # dir[k]) : k \in 1..Len(dir)}

\* the store r a call left, its entries listed in the order of dir
InOrderOf(dir, r) ==
    [r EXCEPT !.pkgdir = SelectSeq(dir, LAMBDA e : e \in Range(r.pkgdir))]

\* Manager.Del by name, over a directory the file system orders as it likes
DelAnyOrderCall ==
    /\ last = NoCall
    /\ \E target \in Names, order \in DirOrders(pkgdir) :
           Returned("Del", [All |-> FALSE], [Name |-> target, Version |-> Empty],
                    InOrderOf(pkgdir, Del([Store EXCEPT !.pkgdir = order], target,
                                          [All |-> FALSE])))

NextAnyName == AddAnyCall \/ DelCall \/ DelAnyOrderCall \/ ListCall \/ Return

SpecAnyName == Init /\ [][NextAnyName]_vars

(***************************************************************************)
(* The manifest check of loadmanifest on its own: the paths of the         *)
(* connectors' executables against the directory of the manifest.          *)
(***************************************************************************)
\* the elements of a list joined with '/'
RECURSIVE JoinElems(_)
JoinElems(elems) ==
    IF Len(elems) = 0 THEN Empty
    ELSE IF Len(elems) = 1 THEN elems[1]
    ELSE elems[1] \o <<"/">> \o JoinElems(Tail(elems))

\* filepath.Clean, the elements kept so far in kept: empty and "." elements
\* are dropped, ".." drops the element before it, stays at the root of a
\* rooted path and is kept at the start of a relative one
RECURSIVE CleanElems(_, _, _)
CleanElems(elems, kept, rooted) ==
    IF Len(elems) = 0 THEN kept
    ELSE IF elems[1] = Empty \/ elems[1] = <<".">>
    THEN CleanElems(Tail(elems), kept, rooted)
    ELSE IF elems[1] # <<".", ".">>
    THEN CleanElems(Tail(elems), Append(kept, elems[1]), rooted)
    ELSE IF Len(kept) > 0 /\ kept[Len(kept)] # <<".", ".">>
    THEN CleanElems(Tail(elems), SubSeq(kept, 1, Len(kept) - 1), rooted)
    ELSE IF rooted THEN CleanElems(Tail(elems), kept, rooted)
    ELSE CleanElems(Tail(elems), Append(kept, elems[1]), rooted)

\* filepath.Clean once the elements are cleaned
cleaned(kept, rooted) ==
    IF rooted THEN <<"/">> \o JoinElems(kept)
    ELSE IF Len(kept) = 0 THEN <<".">>
    ELSE JoinElems(kept)

\* filepath.Clean
Clean(path) ==
    IF path = Empty THEN <<".">>
    ELSE cleaned(CleanElems(Split(path, "/"), << >>, path[1] = "/"), path[1] = "/")

\* filepath.Join of two elements: empty elements are ignored, the result is cleaned
Join(dir, elem) ==
    IF dir = Empty /\ elem = Empty THEN Empty
    ELSE IF elem = Empty THEN Clean(dir)
    ELSE IF dir = Empty THEN Clean(elem)
    ELSE Clean(dir \o <<"/">> \o elem)

\* filepath.Dir: all but the last element of path, cleaned
Dir(path) == Clean(SubSeq(path, 1, LastIndexOf(path, "/")))

\* FlatBackend.loadmanifest, the loop over the connectors of the parsed
\* manifest: the first error, or Nil
RECURSIVE loadmanifestConnectors(_, _)
loadmanifestConnectors(dir, connectors) ==
    IF Len(connectors) = 0 THEN Nil
    ELSE IF ~HasPrefix(Join(dir, connectors[1].Executable), dir) THEN "ErrBadExecutable"
    ELSE IF connectors[1].BadFlag THEN "ErrFlag"
    ELSE loadmanifestConnectors(dir, Tail(connectors))

\* FlatBackend.loadmanifest once the manifest at mpath is opened and parsed
loadmanifestParsed(mpath, connectors) == loadmanifestConnectors(Dir(mpath), connectors)

\* the name of the manifest in an extraction directory
ManifestName == <<"m", "a", "n", "i", "f", "e", "s", "t", ".", "y", "a", "m", "l">>
\* the extraction directories: one rooted, one relative to the working directory
ExtractedDirs == {<<"/", "c", "/", "p">>, <<"c", "/", "p">>}
Executables == {Empty, <<".">>, <<".", ".">>, <<"b", "/", "w">>, <<"/", "w">>,
                <<"a", "/", ".", ".", "/", "b">>,
                <<".", ".", "/", ".", ".", "/", "e", "/", "w">>,
                <<".", ".", "/", "p", "2", "/", "w">>}
Connectors == {[Executable |-> x, BadFlag |-> FALSE] : x \in Executables}
                  \cup {[Executable |-> <<"b", "/", "w">>, BadFlag |-> TRUE]}
Manifests == {<< >>} \cup {<<c>> : c \in Connectors}
                 \cup {<<c, d>> : c \in Connectors, d \in Connectors}

InitManifest ==
    /\ pkgdir = << >>
    /\ cachedir = {}
    /\ last \in {[op |-> "manifest", mpath |-> Join(x, ManifestName), connectors |-> m] :
                     x \in ExtractedDirs, m \in Manifests}

LoadManifestCall ==
    /\ last.op = "manifest"
    /\ last' = [op |-> "loadmanifest", mpath |-> last.mpath,
                connectors |-> last.connectors,
                err |-> loadmanifestParsed(last.mpath, last.connectors)]
    /\ UNCHANGED <<pkgdir, cachedir>>

NextManifest == LoadManifestCall

SpecManifest == InitManifest /\ [][NextManifest]_vars

(***************************************************************************)
(* Package identities and file names on their own: Filename and parseName  *)
(* applied to identities and names a caller can hand them.                 *)
(***************************************************************************)
\* the fields a caller fills a Package with
NameFields == {Empty, <<"s", "3">>, <<"a", "-", "b">>, <<"a", ".", "b">>}
VersionFields == {Empty, <<"v", "1">>, <<"v", "1", ".", "2", ".", "3">>,
                  <<"v", "1", ".", "0", ".", "0", "-", "r", "c", ".", "1">>,
                  <<"v", "1", ".", "2", ".", "3", "+", "b">>,
                  <<"1", ".", "0", ".", "0">>, <<"v", "0", "1">>}
OsFields == {Empty, <<"l", "i", "n", "u", "x">>, <<"l", "i", "-", "n", "u", "x">>}
ArchFields == {<<"l", "i", "n", "u", "x">>, <<"a", "m", "d", "6", "4">>,
               <<"x", ".", "y">>}
InputPackages == [Name : NameFields, Version : VersionFields,
                  OperatingSystem : OsFields, Architecture : ArchFields]

\* the fields of a name joined with '_'
RECURSIVE JoinFields(_)
JoinFields(fields) ==
    IF Len(fields) = 0 THEN Empty
    ELSE IF Len(fields) = 1 THEN fields[1]
    ELSE fields[1] \o <<"_">> \o JoinFields(Tail(fields))

\* the file names a caller hands to parseName: four fields in the order of
\* the naming contract, fewer or more fields, with and without the suffix
FieldLists ==
    {<<p.Name, p.Version, p.OperatingSystem, p.Architecture>> : p \in InputPackages}
        \cup {<<n, v, o>> : n \in NameFields, v \in VersionFields, o \in OsFields}
        \cup {<<n, v, o, a, a>> : n \in {<<"s", "3">>}, v \in {<<"v", "1">>},
                                  o \in OsFields, a \in ArchFields}
        \cup {<<n>> : n \in NameFields}
InputNames ==
    {JoinFields(f) \o PtarExt : f \in FieldLists}
        \cup {JoinFields(<<p.Name, p.Version, p.OperatingSystem, p.Architecture>>) :
                  p \in {q \in InputPackages : q.Name = <<"s", "3">>}}
        \cup {JoinFields(<<<<"s", "3">>, <<"v", "1">>, <<"l", "i", "n", "u", "x">>,
                           <<"a", "m", "d", "6", "4">>>>) \o <<".", "t", "a", "r">>}

InitName ==
    /\ pkgdir = << >>
    /\ cachedir = {}
    /\ last \in {[op |-> "Package", pkg |-> p] : p \in InputPackages}
                    \cup {[op |-> "name", file |-> n] : n \in InputNames}

\* Package.Filename on the package the caller filled
FilenameCall ==
    /\ last.op = "Package"
    /\ last' = [op |-> "Filename", pkg |-> last.pkg, file |-> Filename(last.pkg)]
    /\ UNCHANGED <<pkgdir, cachedir>>

\* Package.parseName on a zero Package, with the name Filename made or the
\* name the caller gave
ParseNameCall ==
    /\ last.op \in {"Filename", "name"}
    /\ last' = [op |-> "parseName", from |-> last.op,
                pkg |-> IF last.op = "Filename" THEN last.pkg ELSE ZeroPackage,
                file |-> last.file, parsed |-> parseNameOf(last.file)]
    /\ UNCHANGED <<pkgdir, cachedir>>

NextName == FilenameCall \/ ParseNameCall

SpecName == InitName /\ [][NextName]_vars

(***************************************************************************)
(* What the claims speak of.                                               *)
(***************************************************************************)
\* the committed artifacts of a package directory
Committed(dir) == {e \in Range(dir) : ~IsHidden(e)}
\* the installed packages of a name, and their versions
InstalledAs(dir, name) == {e \in Committed(dir) : parseName(e).pkg.Name = name}
VersionsOf(dir, name) == {parseName(e).pkg.Version : e \in InstalledAs(dir, name)}
\* the extraction directory of an artifact
ExtractionOf(e) == TrimSuffix(e, PtarExt)

\* the last call was an Add that resolved its target to a name and a version
Added == last.op = "Add" /\ last.name # Empty
\* the call got past the version policy
PolicyPassed == \E k \in 1..Len(last.trace) : last.trace[k] \in {"open", "fetchbinary"}
\* the call left the store as it found it
StoreUnchanged == pkgdir = last.pkgdir /\ cachedir = last.cachedir
\* the target of the call is installed
TargetInstalled == last.version \in VersionsOf(pkgdir, last.name)

\* how many times the call did ev
CountOf(trace, ev) == Len(SelectSeq(trace, LAMBDA x : x = ev))

\* the packages of other names are as the call found them
OthersUntouched ==
    \A e \in Committed(last.pkgdir) \cup Committed(pkgdir) :
        parseName(e).pkg.Name # last.name =>
            /\ e \in Committed(last.pkgdir) /\ e \in Committed(pkgdir)
            /\ (ExtractionOf(e) \in cachedir) = (ExtractionOf(e) \in last.cachedir)

OnlyFlag(o, flag) ==
    /\ o.Upgrade = (flag = "Upgrade")
    /\ o.Downgrade = (flag = "Downgrade")
    /\ o.Replace = (flag = "Replace")
    /\ o.AllowMultipleVersions = (flag = "AllowMultipleVersions")

(***************************************************************************)
(* The flat backend one step at a time (flat.go).  Load advances one       *)
(* system call at a time, so that a caller that does not serialize its     *)
(* calls can have Unload run between two steps of Load; the hooks the      *)
(* backend was built with are recorded, as events, when they run.          *)
(***************************************************************************)
StepIdentities == {p \in Identities : p.Version = <<"v", "1">>}
FlatBackendOptions == [PreLoadHook : BOOLEAN, LoadHook : BOOLEAN, UnloadHook : BOOLEAN]

IdleLoad == [pc |-> "idle", pkg |-> ZeroPackage, tmp |-> Empty, fault |-> "none",
             events |-> << >>]
NoneDone == [op |-> "none", pkg |-> ZeroPackage, err |-> Nil, events |-> << >>]

\* what ran, for which package, and whether the canonical artifact of the
\* package was in pkgdir when it ran
Event(ev, pkg) == [ev |-> ev, pkg |-> pkg, there |-> Filename(pkg) \in Range(pkgdir)]

InitSteps ==
    /\ pkgdir = << >>
    /\ cachedir = {}
    /\ last \in {[op |-> "steps", opts |-> o, serial |-> b, load |-> IdleLoad,
                  done |-> NoneDone] : o \in FlatBackendOptions, b \in BOOLEAN}

Stepped(r, load, done) ==
    /\ Cardinality(Hidden(r.pkgdir)) <= MaxStaged
    /\ pkgdir' = r.pkgdir
    /\ cachedir' = r.cachedir
    /\ last' = [last EXCEPT !.load = load, !.done = done]

\* one step of Load that left the store x: on an error Load unloads the staged
\* file and the extraction directory and returns the error, otherwise it goes on
LoadStep(x, events, pc) ==
    IF x.err # Nil
    THEN Stepped(unload(x, last.load.tmp, ExtractionOf(Filename(last.load.pkg))),
                 IdleLoad,
                 [op |-> "Load", pkg |-> last.load.pkg, err |-> x.err, events |-> events])
    ELSE Stepped(x, [last.load EXCEPT !.pc = pc, !.events = events], last.done)

\* Load: os.CreateTemp and io.Copy
LoadBegin ==
    /\ last.op = "steps"
    /\ last.load.pc = "idle"
    /\ \E pkg \in StepIdentities, fault \in LoadFaults :
           \E tmp \in {FreshName(Range(pkgdir), <<".">> \o pkg.Name \o <<"-">>)} :
               IF fault = "copy"
               THEN Stepped([Store EXCEPT !.pkgdir = Append(@, tmp)], IdleLoad,
                            [op |-> "Load", pkg |-> pkg, err |-> "ErrCopy",
                             events |-> << >>])
               ELSE Stepped([Store EXCEPT !.pkgdir = Append(@, tmp)],
                            [pc |-> "staged", pkg |-> pkg, tmp |-> tmp,
                             fault |-> fault, events |-> << >>],
                            NoneDone)

\* Load: f.extract
LoadExtract ==
    /\ last.op = "steps"
    /\ last.load.pc = "staged"
    /\ LoadStep(extract(Store, ExtractionOf(Filename(last.load.pkg)), last.load.fault),
                Append(last.load.events, Event("extract", last.load.pkg)), "extracted")

\* Load: f.loadmanifest, which opens manifest.yaml in the extraction directory
LoadManifest ==
    /\ last.op = "steps"
    /\ last.load.pc = "extracted"
    /\ LoadStep(Ret(Store, IF ExtractionOf(Filename(last.load.pkg)) \notin cachedir
                           THEN ErrNotExist
                           ELSE loadmanifest(last.load.fault)),
                Append(last.load.events, Event("loadmanifest", last.load.pkg)),
                "validated")

\* Load: f.preloadhook, when it is set
LoadPreHook ==
    /\ last.op = "steps"
    /\ last.load.pc = "validated"
    /\ IF last.opts.PreLoadHook
       THEN LoadStep(Ret(Store, preloadhook(last.load.fault)),
                     Append(last.load.events, Event("preloadhook", last.load.pkg)),
                     "hooked")
       ELSE LoadStep(Ret(Store, Nil), last.load.events, "hooked")

\* Load: os.Link of the staged file to the canonical name
LoadLink ==
    /\ last.op = "steps"
    /\ last.load.pc = "hooked"
    /\ IF last.load.fault = "link"
       THEN LoadStep(Ret(Store, "ErrLink"),
                     Append(last.load.events, Event("Link", last.load.pkg)), "linked")
       ELSE IF Filename(last.load.pkg) \in Range(pkgdir)
       THEN LoadStep(Ret(Store, ErrExist),
                     Append(last.load.events, Event("Link", last.load.pkg)), "linked")
       ELSE LoadStep(Ret([Store EXCEPT !.pkgdir = Append(@, Filename(last.load.pkg))], Nil),
                     Append(last.load.events, Event("Link", last.load.pkg)), "linked")

\* Load: f.loadhook, when it is set, and return nil
LoadHook ==
    /\ last.op = "steps"
    /\ last.load.pc = "linked"
    /\ Stepped(Store, IdleLoad,
               [op |-> "Load", pkg |-> last.load.pkg, err |-> Nil,
                events |-> IF last.opts.LoadHook
                           THEN Append(last.load.events, Event("loadhook", last.load.pkg))
                           ELSE last.load.events])

\* a variant of the Unload step that runs between two steps of Load whether
\* the caller serializes or not
UnloadStepUnserialized ==
    /\ last.op = "steps"
    /\ \E pkg \in StepIdentities :
           Stepped(Unload(Store, pkg), last.load,
                   [op |-> "Unload", pkg |-> pkg, err |-> Unload(Store, pkg).err,
                    events |-> <<Event("unload", pkg)>>])

\* FlatBackend.Unload, between two calls or, when the caller does not
\* serialize, between two steps of Load
UnloadStep ==
    /\ last.op = "steps"
    /\ last.serial => last.load.pc = "idle"
    /\ \E pkg \in StepIdentities :
           Stepped(Unload(Store, pkg), last.load,
                   [op |-> "Unload", pkg |-> pkg, err |-> Unload(Store, pkg).err,
                    events |-> <<Event("unload", pkg)>>])

\* FlatBackend.reload from the return of extract on
reloadExtracted(x, pkg, hook, fault) ==
    IF x.err # Nil
    THEN [unload(x, Filename(pkg), ExtractionOf(Filename(pkg))) EXCEPT !.err = x.err]
    ELSE IF loadmanifest(fault) # Nil
    THEN [unload(x, Filename(pkg), ExtractionOf(Filename(pkg)))
              EXCEPT !.err = loadmanifest(fault)]
    ELSE IF hook
    THEN Ret(Emit(Emit(x, [ev |-> "loadmanifest", pkg |-> pkg]),
                  [ev |-> "loadhook", pkg |-> pkg]), Nil)
    ELSE Ret(Emit(x, [ev |-> "loadmanifest", pkg |-> pkg]), Nil)

\* a variant of reload that extracts whether the directory is there or not
reloadAlwaysExtracts(s, pkg, hook, fault) ==
    reloadExtracted(extract(Emit(Emit(s, [ev |-> "reload", pkg |-> pkg]),
                                 [ev |-> "extract", pkg |-> pkg]),
                            ExtractionOf(Filename(pkg)), fault),
                    pkg, hook, fault)

\* FlatBackend.reload: os.Stat of the extraction directory, extract when it
\* fails, and the rest
reload(s, pkg, hook, fault) ==
    reloadExtracted(IF ExtractionOf(Filename(pkg)) \in s.cachedir
                    THEN Ret(Emit(s, [ev |-> "reload", pkg |-> pkg]), Nil)
                    ELSE extract(Emit(Emit(s, [ev |-> "reload", pkg |-> pkg]),
                                      [ev |-> "extract", pkg |-> pkg]),
                                 ExtractionOf(Filename(pkg)), fault),
                    pkg, hook, fault)

\* FlatBackend.LoadAll over the elements of List("")
RECURSIVE LoadAllLoop(_, _, _, _)
LoadAllNext(r, rest, hook, fault) ==
    IF r.err # Nil THEN r ELSE LoadAllLoop(r, rest, hook, fault)
LoadAllLoop(s, elems, hook, fault) ==
    IF elems = << >> THEN Ret(s, Nil)
    ELSE IF Head(elems).err # Nil THEN Ret(s, Head(elems).err)
    ELSE LoadAllNext(reload(s, Head(elems).pkg, hook, fault), Tail(elems), hook, fault)

LoadAll(s, hook, fault) == LoadAllLoop(s, List(s.pkgdir, Empty), hook, fault)

LoadAllCall ==
    /\ last.op = "steps"
    /\ last.load.pc = "idle"
    /\ \E fault \in {"none", "extract", "manifest"} :
           \E r \in {LoadAll(Store, last.opts.LoadHook, fault)} :
               Stepped(r, IdleLoad,
                       [op |-> "LoadAll", fault |-> fault, err |-> r.err,
                        events |-> r.trace, pkgdir |-> pkgdir, cachedir |-> cachedir])

NextSteps ==
    \/ LoadBegin \/ LoadExtract \/ LoadManifest \/ LoadPreHook \/ LoadLink \/ LoadHook
    \/ UnloadStep \/ LoadAllCall

SpecSteps == InitSteps /\ [][NextSteps]_vars

(***************************************************************************)
(* FlatBackend.List one step at a time (flat.go): the iterator against a   *)
(* consumer that may stop at any element it is yielded, over directories   *)
(* that take one batch of ReadDir and directories that take two.           *)
(***************************************************************************)
\* dir.ReadDir(16)
ReadDirBatch == 16

\* the i-th package file of a directory: two names, versions v0 to v9
IterEntry(i) ==
    Filename([Name |-> IF i % 2 = 0 THEN <<"s", "3">> ELSE <<"f", "s">>,
              Version |-> <<"v", DigitChars[(i \div 2) + 1]>>,
              Architecture |-> GOARCH, OperatingSystem |-> GOOS])
\* a directory of n entries, the h-th a hidden staging file, the m-th a file
\* no package can be parsed from, the others package files
IterDir(n, h, m) ==
    [i \in 1..n |-> IF i = h THEN <<".", "s", "3", "-", "1">>
                    ELSE IF i = m THEN <<"s", "3">> \o PtarExt
                    ELSE IterEntry(i)]
IterDirs ==
    {IterDir(n, h, m) : n \in {0, 1, ReadDirBatch + 1, ReadDirBatch + 2},
                        h \in {0, 1, ReadDirBatch + 1},
                        m \in {0, 2, ReadDirBatch, ReadDirBatch + 2}}

\* the iterator before its first step; handle is the directory handle, out the
\* elements yielded so far, reads the calls of ReadDir so far, stopped whether
\* the consumer has answered false, at the lengths of out and reads it had then
InitList ==
    /\ pkgdir \in IterDirs
    /\ cachedir = {}
    /\ last \in {[op |-> "iter", name |-> name, pc |-> "open", handle |-> "none",
                  rest |-> pkgdir, batch |-> << >>, out |-> << >>, reads |-> 0,
                  stopped |-> FALSE, at |-> <<0, 0>>] : name \in {Empty, <<"s", "3">>}}

\* a variant of the iterator's reaction to yield that goes on whatever the answer
afterYieldIgnored(it, elem, more, pc) ==
    [it EXCEPT !.out = Append(@, elem), !.pc = pc,
               !.stopped = @ \/ ~more,
               !.at = IF ~more /\ ~it.stopped THEN <<Len(it.out) + 1, it.reads>> ELSE @]

\* yield(elem) and what the iterator does with the answer: on false it returns,
\* which runs the deferred dir.Close(); on true it goes on at pc
afterYield(it, elem, more, pc) ==
    IF more
    THEN [it EXCEPT !.out = Append(@, elem), !.pc = pc]
    ELSE [it EXCEPT !.out = Append(@, elem), !.pc = "done", !.handle = "closed",
                    !.stopped = TRUE, !.at = <<Len(it.out) + 1, it.reads>>]

\* os.Open(f.pkgdir) succeeds, and dir.Close() is deferred
ListOpen ==
    /\ last.op = "iter" /\ last.pc = "open"
    /\ last' = [last EXCEPT !.pc = "read", !.handle = "open"]
    /\ UNCHANGED <<pkgdir, cachedir>>

\* os.Open(f.pkgdir) fails: the error is yielded and the iterator returns
ListOpenFails ==
    /\ last.op = "iter" /\ last.pc = "open"
    /\ \E more \in BOOLEAN :
           last' = [afterYield(last, [pkg |-> ZeroPackage, err |-> "ErrOpen"], more, "done")
                        EXCEPT !.handle = "none"]
    /\ UNCHANGED <<pkgdir, cachedir>>

\* dir.ReadDir(16): the next batch, or io.EOF and the iterator returns
ListReadDir ==
    /\ last.op = "iter" /\ last.pc = "read"
    /\ last' = IF last.rest = << >>
               THEN [last EXCEPT !.pc = "done", !.handle = "closed", !.reads = @ + 1]
               ELSE IF Len(last.rest) <= ReadDirBatch
               THEN [last EXCEPT !.pc = "entry", !.reads = @ + 1,
                                 !.batch = last.rest, !.rest = << >>]
               ELSE [last EXCEPT !.pc = "entry", !.reads = @ + 1,
                                 !.batch = SubSeq(last.rest, 1, ReadDirBatch),
                                 !.rest = SubSeq(last.rest, ReadDirBatch + 1,
                                                 Len(last.rest))]
    /\ UNCHANGED <<pkgdir, cachedir>>

\* dir.ReadDir(16) fails: the error is yielded and the iterator returns
\* whatever the consumer answers
ListReadDirFails ==
    /\ last.op = "iter" /\ last.pc = "read"
    /\ \E more \in BOOLEAN :
           last' = [afterYield([last EXCEPT !.reads = @ + 1],
                               [pkg |-> ZeroPackage, err |-> "ErrReadDir"], FALSE, "done")
                        EXCEPT !.stopped = ~more,
                               !.at = IF more THEN last.at
                                      ELSE <<Len(last.out) + 1, last.reads + 1>>]
    /\ UNCHANGED <<pkgdir, cachedir>>

\* the loop over the batch, up to the yield of the parse error: the batch is
\* over, the entry is hidden, or its name is parsed
ListEntry ==
    /\ last.op = "iter" /\ last.pc = "entry"
    /\ IF last.batch = << >>
       THEN last' = [last EXCEPT !.pc = "read"]
       ELSE IF IsHidden(Head(last.batch))
       THEN last' = [last EXCEPT !.batch = Tail(@)]
       ELSE IF parseName(Head(last.batch)).err # Nil
       THEN \E more \in BOOLEAN :
                last' = afterYield(last, [pkg |-> ZeroPackage,
                                          err |-> parseName(Head(last.batch)).err],
                                   more, "filter")
       ELSE last' = [last EXCEPT !.pc = "filter"]
    /\ UNCHANGED <<pkgdir, cachedir>>

\* the rest of the loop body: the name filter and the yield of the package
ListFilter ==
    /\ last.op = "iter" /\ last.pc = "filter"
    /\ IF last.name # Empty /\ parseName(Head(last.batch)).pkg.Name # last.name
       THEN last' = [last EXCEPT !.pc = "entry", !.batch = Tail(@)]
       ELSE \E more \in BOOLEAN :
                last' = afterYield([last EXCEPT !.batch = Tail(@)],
                                   [pkg |-> parseName(Head(last.batch)).pkg, err |-> Nil],
                                   more, "entry")
    /\ UNCHANGED <<pkgdir, cachedir>>

NextList ==
    \/ ListOpen \/ ListOpenFails \/ ListReadDir \/ ListReadDirFails
    \/ ListEntry \/ ListFilter

SpecList == InitList /\ [][NextList]_vars

(***************************************************************************)
(* Manager.Query with options (unnamed/part_002): the installed packages   *)
(* merged with the integrations index the API serves, filtered and sorted. *)
(***************************************************************************)
IntegrationTypes(storage, source, destination) ==
    [Storage |-> storage, Source |-> source, Destination |-> destination]
\* the fields of an Integration the merge treats differently; DisplayName
\* stands for the fields Query copies from the index the same way
Integration(id, display, tags, types, status, version, available) ==
    [Id |-> id, Name |-> id, DisplayName |-> display, Tags |-> tags, Types |-> types,
     Installation |-> [Status |-> status, Version |-> version, Available |-> available]]

\* the integrations of the index, as json decodes them
Plugins ==
    << Integration(<<"s", "3">>, "S3", <<"cloud">>,
                   IntegrationTypes(TRUE, FALSE, FALSE), "", Empty, FALSE),
       Integration(<<"a", "z">>, "Azure", <<"cloud">>,
                   IntegrationTypes(TRUE, TRUE, FALSE), "", Empty, FALSE),
       Integration(<<"f", "s">>, "Filesystem", << >>,
                   IntegrationTypes(FALSE, TRUE, TRUE), "", Empty, FALSE) >>
\* the indexes: the sublists of Plugins, and the fetch or the decoding failing
Indexes ==
    {[err |-> Nil, plugins |-> SelectSeq(Plugins, LAMBDA p : p.Id \in ids)] :
         ids \in SUBSET {Plugins[k].Id : k \in 1..Len(Plugins)}}
        \cup {[err |-> "ErrFetch", plugins |-> << >>]}

QueryOptions == [Type : {"", "storage", "source"}, Tag : {"", "cloud"},
                 Status : {"", "installed", "not-installed"}, OnlyLocal : BOOLEAN]

\* the artifact Load links for a package of the running platform
InstalledFile(name, version) ==
    Filename([Name |-> name, Version |-> version, Architecture |-> GOARCH,
              OperatingSystem |-> GOOS])
\* the package directories Query is called on
QueryDirs ==
    { << >>,
      <<InstalledFile(<<"s", "3">>, <<"v", "1">>)>>,
      <<InstalledFile(<<"f", "s">>, <<"v", "1">>), <<".", "s", "3", "-", "1">>,
        InstalledFile(<<"s", "3">>, <<"v", "2">>)>>,
      <<InstalledFile(<<"s", "3">>, <<"v", "1">>),
        InstalledFile(<<"s", "3">>, <<"v", "2">>)>>,
      <<InstalledFile(<<"f", "s">>, <<"v", "1">>), <<"s", "3">> \o PtarExt>> }

\* packages[id] = v
Put(packages, id, v) ==
    [x \in DOMAIN packages \cup {id} |-> IF x = id THEN v ELSE packages[x]]

\* Query: the loop over p.List()
RECURSIVE queryLocal(_, _)
queryLocal(elems, packages) ==
    IF elems = << >> THEN [packages |-> packages, err |-> Nil]
    ELSE IF Head(elems).err # Nil THEN [packages |-> packages, err |-> Head(elems).err]
    ELSE queryLocal(Tail(elems),
                    Put(packages, Head(elems).pkg.Name,
                        Integration(Head(elems).pkg.Name, Head(elems).pkg.Name, << >>,
                                    IntegrationTypes(FALSE, FALSE, FALSE), "installed",
                                    Head(elems).pkg.Version, FALSE)))

\* Query: what an installed package takes from its entry of the index; Tags
\* is assigned from itself
merged(p, plug) ==
    [p EXCEPT !.Id = plug.Id, !.DisplayName = plug.DisplayName, !.Tags = p.Tags,
              !.Types = plug.Types, !.Installation.Available = TRUE]

\* Query: the loop over index.Plugins
RECURSIVE queryRemote(_, _)
queryRemote(plugins, packages) ==
    IF plugins = << >> THEN packages
    ELSE IF Head(plugins).Id \in DOMAIN packages
    THEN queryRemote(Tail(plugins),
                     Put(packages, Head(plugins).Id,
                         merged(packages[Head(plugins).Id], Head(plugins))))
    ELSE queryRemote(Tail(plugins),
                     Put(packages, Head(plugins).Id,
                         [Head(plugins) EXCEPT !.Installation.Status = "not-installed",
                                               !.Installation.Available = TRUE]))

\* Query: the filters of the last loop
queryKeeps(opts, plug) ==
    /\ ~(opts.Type = "storage" /\ ~plug.Types.Storage)
    /\ ~(opts.Type = "source" /\ ~plug.Types.Source)
    /\ ~(opts.Type = "destination" /\ ~plug.Types.Destination)
    /\ ~(opts.Tag # "" /\ opts.Tag \notin Range(plug.Tags))
    /\ ~(opts.Status # "" /\ opts.Status # plug.Installation.Status)

\* slices.SortFunc with strings.Compare on Name
RECURSIVE SortByName(_)
SortByName(plugs) ==
    IF plugs = {} THEN << >>
    ELSE <<CHOOSE m \in plugs : \A y \in plugs : CompareBytes(m.Name, y.Name) <= 0>>
             \o SortByName(plugs \ {CHOOSE m \in plugs :
                                        \A y \in plugs : CompareBytes(m.Name, y.Name) <= 0})

queryFiltered(packages, opts, fetched) ==
    [ret |-> SortByName({packages[id] : id \in {x \in DOMAIN packages :
                                                    queryKeeps(opts, packages[x])}}),
     err |-> Nil, fetched |-> fetched]

queryFrom(local, opts, index) ==
    IF local.err # Nil THEN [ret |-> << >>, err |-> local.err, fetched |-> FALSE]
    ELSE IF opts.OnlyLocal THEN queryFiltered(local.packages, opts, FALSE)
    ELSE IF index.err # Nil THEN [ret |-> << >>, err |-> index.err, fetched |-> TRUE]
    ELSE queryFiltered(queryRemote(index.plugins, local.packages), opts, TRUE)

\* Manager.Query(opts)
Query(dir, opts, index) == queryFrom(queryLocal(List(dir, Empty), << >>), opts, index)

InitQuery ==
    /\ pkgdir \in QueryDirs
    /\ cachedir = {}
    /\ last \in {[op |-> "query", opts |-> o, index |-> x] :
                     o \in QueryOptions, x \in Indexes}

QueryCall ==
    /\ last.op = "query"
    /\ last' = [op |-> "Query", opts |-> last.opts, index |-> last.index,
                r |-> Query(pkgdir, last.opts, last.index)]
    /\ UNCHANGED <<pkgdir, cachedir>>

NextQuery == QueryCall

SpecQuery == InitQuery /\ [][NextQuery]_vars

(***************************************************************************)
(* Manager.fetch and the request hook (manager.go).                        *)
(***************************************************************************)
ErrAuthorizationRequired == "ErrAuthorizationRequired"

\* WithBearer(fn) run on a request whose Authorization header is auth; fn
\* yields the token fn.token and the error fn.err
WithBearer(fn, auth) ==
    IF fn.err # Nil THEN [auth |-> auth, err |-> fn.err]
    ELSE IF fn.token # Empty
    THEN [auth |-> <<"B", "e", "a", "r", "e", "r", " ">> \o fn.token, err |-> Nil]
    ELSE [auth |-> auth, err |-> Nil]

\* the request hooks a Manager is built with: none, WithBearer over a callback,
\* or a hook of the caller's that sets the header to hook.set, or leaves it
\* when hook.set is empty, and returns hook.err
RequestHooks ==
    {[kind |-> "nil"]}
        \cup {[kind |-> "bearer", fn |-> [token |-> t, err |-> e]] :
                  t \in {Empty, <<"t">>}, e \in {Nil, "ErrToken"}}
        \cup {[kind |-> "custom", set |-> s, err |-> e] :
                  s \in {Empty, <<"B", "a", "s", "i", "c", " ", "x">>},
                  e \in {Nil, "ErrHook"}}

\* p.reqhook(req)
reqhook(hook, auth) ==
    IF hook.kind = "bearer" THEN WithBearer(hook.fn, auth)
    ELSE [auth |-> IF hook.set # Empty THEN hook.set ELSE auth, err |-> hook.err]

\* a variant of the test of the Authorization header that never fails
authorizationNeverMissing(reqauth, auth) == FALSE

\* fetch: reqauth && req.Header.Get("Authorization") == ""
authorizationMissing(reqauth, auth) == reqauth /\ auth = Empty

\* fetch from the return of the hook on: http.DefaultClient.Do sends the
\* request, and net is what comes back
fetchHooked(reqauth, hooked, ran, net) ==
    IF hooked.err # Nil
    THEN [err |-> hooked.err, sent |-> FALSE, auth |-> hooked.auth, ran |-> ran]
    ELSE IF authorizationMissing(reqauth, hooked.auth)
    THEN [err |-> ErrAuthorizationRequired, sent |-> FALSE, auth |-> hooked.auth,
          ran |-> ran]
    ELSE [err |-> IF net = "transport" THEN "ErrTransport"
                  ELSE IF net = "404" THEN "ErrStatus" ELSE Nil,
          sent |-> TRUE, auth |-> hooked.auth, ran |-> ran]

\* Manager.fetch(url, endpoint, reqauth)
fetch(badurl, reqauth, hook, net) ==
    IF badurl THEN [err |-> "ErrNewRequest", sent |-> FALSE, auth |-> Empty, ran |-> FALSE]
    ELSE IF reqauth /\ hook.kind # "nil"
    THEN fetchHooked(reqauth, reqhook(hook, Empty), TRUE, net)
    ELSE fetchHooked(reqauth, [auth |-> Empty, err |-> Nil], FALSE, net)

InitFetch ==
    /\ pkgdir = << >>
    /\ cachedir = {}
    /\ last \in {[op |-> "request", badurl |-> b, reqauth |-> a, hook |-> h, net |-> n] :
                     b \in BOOLEAN, a \in BOOLEAN, h \in RequestHooks,
                     n \in {"200", "404", "transport"}}

FetchCall ==
    /\ last.op = "request"
    /\ last' = [op |-> "fetch", badurl |-> last.badurl, reqauth |-> last.reqauth,
                hook |-> last.hook, net |-> last.net,
                r |-> fetch(last.badurl, last.reqauth, last.hook, last.net)]
    /\ UNCHANGED <<pkgdir, cachedir>>

NextFetch == FetchCall

SpecFetch == InitFetch /\ [][NextFetch]_vars

(***************************************************************************)
(* The manager and the store called in turn: Add and Del, and Load, Unload *)
(* and LoadAll on the store the manager uses, each call running to its end *)
(* before the next one starts.                                             *)
(***************************************************************************)
\* FlatBackend.LoadAll, with the load hook set
LoadAllStoreCall ==
    /\ last = NoCall
    /\ \E fault \in {"none", "extract", "manifest"} :
           Returned("LoadAll", [fault |-> fault], NoRecipe, LoadAll(Store, TRUE, fault))

\* FlatBackend.Load and FlatBackend.Unload, called on the store directly for
\* one version of each name
LoadOneCall ==
    /\ last = NoCall
    /\ \E pkg \in StepIdentities, fault \in LoadFaults :
           Returned("Load", [fault |-> fault], pkg, Load(Store, pkg, fault))

UnloadOneCall ==
    /\ last = NoCall
    /\ \E pkg \in StepIdentities :
           Returned("Unload", << >>, pkg, Unload(Store, pkg))

NextAll ==
    AddCall \/ DelCall \/ LoadOneCall \/ UnloadOneCall \/ LoadAllStoreCall \/ Return

SpecAll == Init /\ [][NextAll]_vars


(***************************************************************************)
(* C1.  Manager.Add is all-or-nothing on the installed set: when Add       *)
(* returns an error, the committed artifacts of pkgdir and their           *)
(* extraction directories are those present before the call; when it       *)
(* returns nil, the target is installed.  No call ends with the installed  *)
(* version evicted and the requested one not installed.                    *)
(***************************************************************************)
C1_AddAllOrNothing ==
    last.op = "Add" =>
        IF last.err # Nil
        THEN /\ Committed(pkgdir) = Committed(last.pkgdir)
             /\ cachedir = last.cachedir
        ELSE TargetInstalled

(***************************************************************************)
(* C2.  When the pre-load hook fails during FlatBackend.Load, Load returns *)
(* that error and pkgdir and cachedir hold what they held before the call: *)
(* no staging file, no extraction directory, no canonical artifact is      *)
(* left behind.                                                            *)
(***************************************************************************)
C2_PreLoadHookFailureRollsBack ==
    last.op = "Load" =>
        /\ last.opts.fault = "prehook" => last.err \in {"ErrPreLoadHook", ErrExist}
        /\ last.err = "ErrPreLoadHook" => StoreUnchanged

\* the hook has failed a Load into a store that holds packages
C2_Witness ==
    /\ last.op = "Load" /\ last.err = "ErrPreLoadHook"
    /\ Committed(last.pkgdir) # {} /\ last.cachedir # {}

(***************************************************************************)
(* C3.  Whenever Add returns ErrAlreadyInstalled or ErrInvalidOptions, no  *)
(* installed package has been evicted and the store is unchanged.          *)
(***************************************************************************)
C3_PolicyErrorsHaveNoEffect ==
    (last.op = "Add" /\ last.err \in {ErrAlreadyInstalled, ErrInvalidOptions})
        => StoreUnchanged

(***************************************************************************)
(* C4.  With none of Replace, Upgrade, Downgrade, AllowMultipleVersions    *)
(* set, Add of a package whose name has an installed version, the same or  *)
(* another, returns ErrAlreadyInstalled and leaves the store unchanged;    *)
(* with no installed version of the name the policy evicts nothing and the *)
(* install proceeds.                                                       *)
(***************************************************************************)
C4_DefaultPolicy ==
    (Added /\ OnlyFlag(last.opts, "none")) =>
        IF VersionsOf(last.pkgdir, last.name) # {}
        THEN last.err = ErrAlreadyInstalled /\ StoreUnchanged
        ELSE /\ PolicyPassed
             /\ last.err # ErrAlreadyInstalled
             /\ Committed(last.pkgdir) \subseteq Committed(pkgdir)
             /\ last.cachedir \subseteq cachedir

\* a version other than the installed one is refused
C4_Witness ==
    /\ Added /\ OnlyFlag(last.opts, "none")
    /\ VersionsOf(last.pkgdir, last.name) # {}
    /\ last.version \notin VersionsOf(last.pkgdir, last.name)
    /\ last.err = ErrAlreadyInstalled

(***************************************************************************)
(* C5.  With Replace set, Add evicts every installed version of the target *)
(* name, older, newer or equal, and then commits the target: after a       *)
(* successful Add the target version is the only installed version of the  *)
(* name, and the packages of other names are untouched.                    *)
(***************************************************************************)
C5_ReplaceEvictsAll ==
    (Added /\ OnlyFlag(last.opts, "Replace")) =>
        /\ CountOf(last.trace, "Unload") = Cardinality(InstalledAs(last.pkgdir, last.name))
        /\ VersionsOf(pkgdir, last.name) \subseteq {last.version}
        /\ last.err = Nil => VersionsOf(pkgdir, last.name) = {last.version}
        /\ OthersUntouched

\* a newer version is replaced by an older one, beside a package of another name
C5_Witness ==
    /\ Added /\ OnlyFlag(last.opts, "Replace") /\ last.err = Nil
    /\ \E v \in VersionsOf(last.pkgdir, last.name) : SemverCompare(v, last.version) > 0
    /\ \E e \in Committed(last.pkgdir) : parseName(e).pkg.Name # last.name

(***************************************************************************)
(* C6.  With AllowMultipleVersions set, Add of a version different from    *)
(* every installed version of the name evicts nothing: after a successful  *)
(* Add the versions installed before are all present beside the new one.   *)
(***************************************************************************)
C6_MultipleVersionsKeepsAll ==
    (Added /\ OnlyFlag(last.opts, "AllowMultipleVersions")
           /\ last.version \notin VersionsOf(last.pkgdir, last.name)) =>
        /\ CountOf(last.trace, "Unload") = 0
        /\ last.err # ErrAlreadyInstalled
        /\ Committed(last.pkgdir) \subseteq Committed(pkgdir)
        /\ last.cachedir \subseteq cachedir
        /\ last.err = Nil =>
               VersionsOf(pkgdir, last.name)
                   = VersionsOf(last.pkgdir, last.name) \cup {last.version}

\* a second version is installed beside the first
C6_Witness ==
    /\ Added /\ OnlyFlag(last.opts, "AllowMultipleVersions") /\ last.err = Nil
    /\ VersionsOf(last.pkgdir, last.name) # {}
    /\ Cardinality(VersionsOf(pkgdir, last.name)) >= 2

(***************************************************************************)
(* C7.  With AllowMultipleVersions set, Add of a version equal to an       *)
(* installed version of the same name returns ErrAlreadyInstalled and      *)
(* leaves the store unchanged.                                             *)
(***************************************************************************)
C7_MultipleVersionsRejectsDuplicate ==
    (Added /\ OnlyFlag(last.opts, "AllowMultipleVersions")
           /\ last.version \in VersionsOf(last.pkgdir, last.name)) =>
        last.err = ErrAlreadyInstalled /\ StoreUnchanged

\* the duplicate is found among several installed versions
C7_Witness ==
    /\ Added /\ OnlyFlag(last.opts, "AllowMultipleVersions")
    /\ last.version \in VersionsOf(last.pkgdir, last.name)
    /\ Cardinality(VersionsOf(last.pkgdir, last.name)) >= 2
    /\ last.err = ErrAlreadyInstalled

(***************************************************************************)
(* C8.  Add refuses the contradictory option sets before it touches        *)
(* anything: Upgrade with Downgrade, Replace with Upgrade or Downgrade,    *)
(* AllowMultipleVersions with any of Replace, Upgrade, Downgrade return    *)
(* ErrInvalidOptions, with no enumeration, no eviction, no fetch and no    *)
(* change to pkgdir or cachedir.                                           *)
(***************************************************************************)
C8_ContradictoryOptionsRefused ==
    (/\ last.op = "Add"
     /\ \/ last.opts.Upgrade /\ last.opts.Downgrade
        \/ last.opts.Replace /\ last.opts.Upgrade
        \/ last.opts.Replace /\ last.opts.Downgrade
        \/ last.opts.AllowMultipleVersions /\ last.opts.Replace
        \/ last.opts.AllowMultipleVersions /\ last.opts.Upgrade
        \/ last.opts.AllowMultipleVersions /\ last.opts.Downgrade) =>
        last.err = ErrInvalidOptions /\ last.trace = << >> /\ StoreUnchanged

\* Replace with Upgrade is refused on a store that holds the target's name
C8_Witness ==
    /\ last.op = "Add" /\ last.opts.Replace /\ last.opts.Upgrade /\ ~last.opts.Downgrade
    /\ last.err = ErrInvalidOptions
    /\ VersionsOf(last.pkgdir, last.name) # {}

(***************************************************************************)
(* C9.  Upgrade and Downgrade act in the documented direction: with only   *)
(* Upgrade set, an installed version strictly older than the target is     *)
(* removed and the target is installed; with only Downgrade set, an        *)
(* installed version strictly newer than the target is removed and the     *)
(* target is installed.                                                    *)
(***************************************************************************)
C9_UpgradeDowngradeDirection ==
    /\ (/\ Added /\ OnlyFlag(last.opts, "Upgrade")
        /\ \A v \in VersionsOf(last.pkgdir, last.name) : SemverCompare(v, last.version) < 0)
           => /\ last.err # ErrAlreadyInstalled
              /\ VersionsOf(pkgdir, last.name) \subseteq {last.version}
    /\ (/\ Added /\ OnlyFlag(last.opts, "Downgrade")
        /\ \A v \in VersionsOf(last.pkgdir, last.name) : SemverCompare(v, last.version) > 0)
           => /\ last.err # ErrAlreadyInstalled
              /\ VersionsOf(pkgdir, last.name) \subseteq {last.version}

(***************************************************************************)
(* C10.  In the comparison branch of the version policy (one of Upgrade    *)
(* and Downgrade set, Replace and AllowMultipleVersions unset), for each   *)
(* installed entry e of the name, in directory order, with                 *)
(* cmp = compare(target, e.version): the request is rejected with          *)
(* ErrAlreadyInstalled if cmp >= 0 and Downgrade is not set, or if         *)
(* cmp <= 0 and Upgrade is not set; otherwise e is evicted and the loop    *)
(* goes on.  A target equal to an installed version is always rejected.    *)
(***************************************************************************)
\* the installed entries of the target's name, in directory order
C10_Entries ==
    SelectSeq(last.pkgdir, LAMBDA e : ~IsHidden(e) /\ parseName(e).pkg.Name = last.name)
C10_Cmp(e) == SemverCompare(last.version, parseName(e).pkg.Version)
C10_Rejected(e) ==
    \/ C10_Cmp(e) >= 0 /\ ~last.opts.Downgrade
    \/ C10_Cmp(e) <= 0 /\ ~last.opts.Upgrade
\* the entries the loop evicts: those before the first rejected one
C10_Evicted ==
    {C10_Entries[k] : k \in {i \in 1..Len(C10_Entries) :
                                 \A j \in 1..i : ~C10_Rejected(C10_Entries[j])}}
C11_ParseInvertsFilename ==
    (last.op = "parseName" /\ last.from = "Filename" /\ Validate(last.pkg) = Nil) =>
        last.parsed.err = Nil /\ last.parsed.pkg = last.pkg

(***************************************************************************)
(* C12.  After a successful Load of the identity {name, version, os, arch} *)
(* pkgdir holds an artifact named name_version_os_arch.ptar, the fields in *)
(* that order, and a List that follows yields an identity equal to the     *)
(* loaded one in all four fields.                                          *)
(***************************************************************************)
C12_Loaded ==
    [Name |-> last.name, Version |-> last.version, OperatingSystem |-> GOOS,
     Architecture |-> GOARCH]
C12_CanonicalArtifact ==
    (last.op = "Load" /\ last.err = Nil) =>
        /\ (last.name \o <<"_">> \o last.version \o <<"_">> \o GOOS \o <<"_">>
                \o GOARCH \o PtarExt) \in Range(pkgdir)
        /\ \E k \in 1..Len(List(pkgdir, last.name)) :
               /\ List(pkgdir, last.name)[k].err = Nil
               /\ List(pkgdir, last.name)[k].pkg = C12_Loaded

(***************************************************************************)
(* C13.  parseName succeeds exactly when the file name ends in .ptar, the  *)
(* base name splits on '_' into exactly four fields, the name field is     *)
(* non-empty and over [A-Za-z0-9-], the version field is a valid semantic  *)
(* version and the os and arch fields are over [A-Za-z0-9]; then the       *)
(* package holds the four fields.  In every other case it returns an       *)
(* error that wraps ErrBadPackageName.                                     *)
(***************************************************************************)
C13_Alnum == Digits \cup Uppers \cup Lowers
C13_Fields == Split(SubSeq(last.file, 1, Len(last.file) - Len(PtarExt)), "_")
C13_WellFormed ==
    /\ Len(last.file) >= Len(PtarExt)
    /\ SubSeq(last.file, Len(last.file) - Len(PtarExt) + 1, Len(last.file)) = PtarExt
    /\ Len(C13_Fields) = 4
    /\ C13_Fields[1] # Empty
    /\ Range(C13_Fields[1]) \subseteq C13_Alnum \cup {"-"}
    /\ SemverIsValid(C13_Fields[2])
    /\ Range(C13_Fields[3]) \subseteq C13_Alnum
    /\ Range(C13_Fields[4]) \subseteq C13_Alnum
C13_ParseNameAccepts ==
    last.op = "parseName" =>
        IF C13_WellFormed
        THEN /\ last.parsed.err = Nil
             /\ last.parsed.pkg = [Name |-> C13_Fields[1], Version |-> C13_Fields[2],
                                   OperatingSystem |-> C13_Fields[3],
                                   Architecture |-> C13_Fields[4]]
        ELSE last.parsed.err = ErrBadPackageName

\* a name of four fields is refused for the '-' in its os field
C13_Witness ==
    /\ last.op = "parseName"
    /\ last.parsed.err = ErrBadPackageName
    /\ last.parsed.pkg.Name # Empty
    /\ "-" \in Range(last.parsed.pkg.OperatingSystem)

(***************************************************************************)
(* C14.  Identity validation is applied on every construction path: every  *)
(* Package the Manager hands to Store.Load has passed Validate, the one    *)
(* built on the implicit-fetch path included; an Add whose name or version *)
(* is invalid fails with a bad-package-name error and commits no artifact  *)
(* under a name that cannot be parsed.                                     *)
(***************************************************************************)
C14_Handed ==
    [Name |-> last.name, Version |-> last.version, OperatingSystem |-> GOOS,
     Architecture |-> GOARCH]
C14_ValidatedOnEveryPath ==
    last.op = "Add" =>
        /\ CountOf(last.trace, "Load") > 0 => Validate(C14_Handed) = Nil
        /\ Validate(C14_Handed) # Nil =>
               /\ last.err = ErrBadPackageName
               /\ \A e \in Committed(pkgdir) \ Committed(last.pkgdir) :
                      parseName(e).err = Nil

(***************************************************************************)
(* C15.  A fully consumed List over pkgdir yields, in directory order,     *)
(* exactly one element per entry that is not hidden: the package and a nil *)
(* error for a well-formed name, a nil package and the error for a         *)
(* malformed name, and nothing else.                                       *)
(***************************************************************************)
C15_Entries == SelectSeq(last.pkgdir, LAMBDA e : ~IsHidden(e))
C15_OneElementPerEntry ==
    (last.op = "List" /\ last.name = Empty) =>
        /\ Len(last.elems) = Len(C15_Entries)
        /\ \A k \in 1..Len(C15_Entries) :
               IF parseName(C15_Entries[k]).err = Nil
               THEN last.elems[k] = [pkg |-> parseName(C15_Entries[k]).pkg, err |-> Nil]
               ELSE last.elems[k] = [pkg |-> ZeroPackage, err |-> ErrBadPackageName]

(***************************************************************************)
(* C16.  The hidden, dot-prefixed entries of pkgdir, the staging files of  *)
(* Load, are never yielded by List, neither as a package nor as an error,  *)
(* in any state a Load leaves.                                             *)
(***************************************************************************)
C16_Visible == SelectSeq(last.pkgdir, LAMBDA e : e[1] # ".")
C16_HiddenNeverListed ==
    last.op = "List" =>
        /\ last.elems = List(C16_Visible, last.name)
        /\ \A k \in 1..Len(last.elems) :
               /\ last.elems[k].err = Nil
               /\ \E i \in 1..Len(C16_Visible) :
                      last.elems[k].pkg = parseName(C16_Visible[i]).pkg

\* a listing of a directory that holds staging files beside artifacts
C16_Witness ==
    /\ last.op = "List" /\ last.name = Empty
    /\ Len(C16_Visible) < Len(last.pkgdir)
    /\ Len(last.elems) = Len(C16_Visible)
    /\ Len(last.elems) > 0

(***************************************************************************)
(* C17.  loadmanifest accepts a manifest only if, for every connector, the *)
(* path made by joining the manifest's directory with connector.Executable *)
(* lies inside that directory, the directory itself or below it, by path   *)
(* components; every executable path that escapes the directory through    *)
(* '..' is rejected with an error.                                         *)
(***************************************************************************)
C17_Dir == Split(SubSeq(last.mpath, 1, Len(last.mpath) - Len(ManifestName) - 1), "/")
C17_Resolved(k) == Split(Join(JoinElems(C17_Dir), last.connectors[k].Executable), "/")
C17_Inside(k) ==
    /\ Len(C17_Resolved(k)) >= Len(C17_Dir)
    /\ SubSeq(C17_Resolved(k), 1, Len(C17_Dir)) = C17_Dir
C17_ManifestPathContainment ==
    last.op = "loadmanifest" =>
        /\ last.err = Nil => \A k \in 1..Len(last.connectors) : C17_Inside(k)
        /\ (\E k \in 1..Len(last.connectors) : ~C17_Inside(k)) => last.err # Nil

(***************************************************************************)
(* C18.  The temporary staging files and directories a Load call creates   *)
(* are all removed before the call returns, on every exit path, the        *)
(* success path included: after any Load returns, pkgdir holds no hidden   *)
(* staging file the call created and cachedir no '.extract-*' directory it *)
(* created.                                                                *)
(***************************************************************************)
C18_NoStagingLeftBehind ==
    last.op = "Load" =>
        /\ Hidden(pkgdir) \subseteq Hidden(last.pkgdir)
        /\ \A d \in cachedir \ last.cachedir : ~HasPrefix(d, ExtractPrefix)

(***************************************************************************)
(* C19.  Eviction is idempotent and tolerant of partial state: Unload      *)
(* removes the canonical artifact and its extraction directory, a missing  *)
(* extraction directory is no error, and a failure to remove the artifact  *)
(* file is returned unless it is 'does not exist'.  So a second Unload of  *)
(* the same identity returns no error and leaves the store as the first    *)
(* left it.                                                                *)
(***************************************************************************)
C19_Artifact ==
    last.name \o <<"_">> \o last.version \o <<"_">> \o GOOS \o <<"_">> \o GOOS \o PtarExt
C19_UnloadIdempotent ==
    last.op = "Unload" =>
        /\ C19_Artifact \notin Range(pkgdir)
        /\ TrimSuffix(C19_Artifact, PtarExt) \notin cachedir
        /\ C19_Artifact \notin Range(last.pkgdir) =>
               last.err = Nil /\ pkgdir = last.pkgdir

(***************************************************************************)
(* C20.  Del with All false and an empty target is refused with            *)
(* ErrBadPackageName before any enumeration, and leaves pkgdir and         *)
(* cachedir unchanged.                                                     *)
(***************************************************************************)
C20_DelNeedsTarget ==
    (last.op = "Del" /\ ~last.opts.All /\ last.name = Empty) =>
        /\ last.err = ErrBadPackageName
        /\ last.trace = << >>
        /\ StoreUnchanged

\* the refused Del found packages installed
C20_Witness ==
    /\ last.op = "Del" /\ ~last.opts.All /\ last.name = Empty
    /\ last.err = ErrBadPackageName
    /\ Committed(pkgdir) # {}

(***************************************************************************)
(* C21.  Del with All set enumerates and evicts all the installed          *)
(* packages, whatever the target: after it returns nil no committed        *)
(* package of any name remains in pkgdir.                                  *)
(***************************************************************************)
C21_DelAllEvictsAll ==
    (last.op = "Del" /\ last.opts.All /\ last.err = Nil) => Committed(pkgdir) = {}

\* the events of the Load in progress or, between two calls, of the Load that
\* returned last
LoadEvents ==
    IF last.load.pc # "idle" THEN last.load.events
    ELSE IF last.done.op = "Load" THEN last.done.events
    ELSE << >>
HookRuns(ev) == {k \in 1..Len(LoadEvents) : LoadEvents[k].ev = ev}

C23_PreHookAfterManifest ==
    \A k \in HookRuns("preloadhook") :
        /\ k = 3
        /\ LoadEvents[1].ev = "extract"
        /\ LoadEvents[2].ev = "loadmanifest"
C23_PreHookBeforeName ==
    \A k \in HookRuns("preloadhook") : ~LoadEvents[k].there
C23_LoadHookAfterCommit ==
    /\ \A k \in HookRuns("loadhook") :
           /\ LoadEvents[k].there
           /\ \E j \in 1..(k - 1) : LoadEvents[j].ev = "Link" /\ ~LoadEvents[j].there
    /\ (last.done.op = "Load" /\ last.done.err = Nil /\ last.opts.LoadHook)
           => Cardinality(HookRuns("loadhook")) = 1
    /\ (last.done.op = "Load" /\ last.done.err # Nil) => HookRuns("loadhook") = {}
C23_CommitStays ==
    /\ last.load.pc = "linked" => Filename(last.load.pkg) \in Range(pkgdir)
    /\ (last.done.op = "Load" /\ last.done.err = Nil)
           => Filename(last.done.pkg) \in Range(pkgdir)
(***************************************************************************)
(* C23.  Hook ordering in Load, for a caller that serializes its calls:    *)
(* the pre-load hook, when set, runs after the manifest was extracted and  *)
(* validated and strictly before the canonical artifact name exists in     *)
(* pkgdir; the load hook runs exactly once per successful Load, only after *)
(* the canonical artifact exists, and never in a Load that returns an      *)
(* error; nothing after the commit unwinds it.                             *)
(***************************************************************************)
C23_HookOrdering ==
    (last.op = "steps" /\ last.serial)
        => /\ C23_PreHookAfterManifest
           /\ C23_PreHookBeforeName
           /\ C23_LoadHookAfterCommit
           /\ C23_CommitStays

\* the events of the LoadAll that returned last, and those of one kind about
\* the artifact e
Reloaded(ev, e) ==
    {k \in 1..Len(last.done.events) :
         last.done.events[k].ev = ev /\ Filename(last.done.events[k].pkg) = e}
C24_ExtractsWhenMissing ==
    \A e \in Committed(last.done.pkgdir) :
        Reloaded("extract", e) # {} => ExtractionOf(e) \notin last.done.cachedir
C24_NoPreLoadHook ==
    \A k \in 1..Len(last.done.events) : last.done.events[k].ev # "preloadhook"
C24_LoadHookOnce ==
    \A e \in Committed(last.done.pkgdir) :
        /\ \A k \in Reloaded("loadhook", e) :
               \E j \in Reloaded("loadmanifest", e) : j < k
        /\ (last.done.err = Nil /\ last.opts.LoadHook)
               => Cardinality(Reloaded("loadhook", e)) = 1
        /\ Cardinality(Reloaded("loadhook", e)) <= 1
C24_FailureReturned ==
    last.done.err # Nil
        => /\ last.done.err = (IF last.done.fault = "extract" THEN "ErrExtract"
                               ELSE "ErrManifest")
           /\ \E k \in 1..Len(last.done.events) :
                  /\ last.done.events[k].ev = "reload"
                  /\ \A j \in (k + 1)..Len(last.done.events) :
                         last.done.events[j].ev \notin {"reload", "loadhook"}

(***************************************************************************)
(* C24.  Rehydration (reload, called by LoadAll for every installed        *)
(* package) runs extract only when the extraction directory of the         *)
(* committed artifact is missing, never runs the pre-load hook, and runs   *)
(* the load hook exactly once per package, after the manifest was loaded   *)
(* and validated; when extract or the manifest fails the load hook is not  *)
(* run for that package and the error is returned.                         *)
(***************************************************************************)
C24_Rehydration ==
    (last.op = "steps" /\ last.done.op = "LoadAll")
        => /\ C24_ExtractsWhenMissing
           /\ C24_NoPreLoadHook
           /\ C24_LoadHookOnce
           /\ C24_FailureReturned
\* LoadAll returned nil over two installed packages, one of which it had to
\* extract again, and ran the load hook
C24_Witness ==
    /\ last.op = "steps" /\ last.done.op = "LoadAll" /\ last.done.err = Nil
    /\ last.opts.LoadHook /\ last.opts.PreLoadHook
    /\ Cardinality(Committed(last.done.pkgdir)) = 2
    /\ \E e \in Committed(last.done.pkgdir) :
           Reloaded("extract", e) # {} /\ Reloaded("loadhook", e) # {}
\* LoadAll failed on a package and returned the error
C24_WitnessFailure ==
    /\ last.op = "steps" /\ last.done.op = "LoadAll" /\ last.done.err = "ErrManifest"
    /\ last.opts.LoadHook

(***************************************************************************)
(* C26.  When an UnloadHook is configured, every Unload that removes an    *)
(* installed package runs the hook for that package.                       *)
(***************************************************************************)
C26_UnloadHookRuns ==
    (/\ last.op = "steps" /\ last.opts.UnloadHook
     /\ last.done.op = "Unload" /\ last.done.err = Nil
     /\ last.done.events[1].there)
        => \E k \in 1..Len(last.done.events) :
               /\ last.done.events[k].ev = "unloadhook"
               /\ last.done.events[k].pkg = last.done.pkg

\* a Load that returned nil and ran the load hook has left its canonical
\* artifact without its extraction directory
C30_CommittedWithoutExtraction ==
    /\ last.op = "steps" /\ last.load.pc = "idle"
    /\ last.done.op = "Load" /\ last.done.err = Nil
    /\ HookRuns("loadhook") # {}
    /\ Filename(last.done.pkg) \in Range(pkgdir)
    /\ ExtractionOf(Filename(last.done.pkg)) \notin cachedir

(***************************************************************************)
(* C30.  Load and Unload are not safe when run concurrently on the same    *)
(* identity: a caller that does not serialize them can have Unload of p    *)
(* run between the extraction step and the commit step of a Load of p,     *)
(* after which the Load still commits the artifact and runs the load hook, *)
(* and the artifact is committed without its extraction directory.  With   *)
(* the calls serialized no successful Load ends in that state.             *)
(***************************************************************************)
C30_SerializedLoadKeepsExtraction ==
    (last.op = "steps" /\ last.serial) => ~C30_CommittedWithoutExtraction
\* the interleaving: calls not serialized, and the state is reached
C30_Witness ==
    /\ last.op = "steps" /\ ~last.serial
    /\ last.opts.LoadHook
    /\ C30_CommittedWithoutExtraction

(***************************************************************************)
(* C27.  Del(name) with a non-empty name evicts every installed version of *)
(* exactly that name and nothing else: the artifacts and the extraction    *)
(* directories of the packages of that name are gone, those of every other *)
(* name, a name that starts with name included, are as the call found them.*)
(***************************************************************************)
C27_DelEvictsExactlyName ==
    (last.op = "Del" /\ last.name # Empty /\ last.err = Nil)
        => /\ pkgdir = SelectSeq(last.pkgdir,
                                 LAMBDA e : e \notin InstalledAs(last.pkgdir, last.name))
           /\ cachedir = last.cachedir
                            \ {ExtractionOf(e) : e \in InstalledAs(last.pkgdir, last.name)}
\* Del evicted two versions of a name and left the package of another name
C27_Witness ==
    /\ last.op = "Del" /\ last.err = Nil /\ ~last.opts.All
    /\ Cardinality(InstalledAs(last.pkgdir, last.name)) = 2
    /\ InstalledAs(pkgdir, last.name) = {}
    /\ Committed(pkgdir) # {}
\* Del of a name that an installed name starts with evicted nothing
C27_WitnessPrefix ==
    /\ last.op = "Del" /\ last.err = Nil /\ last.name = PrefixName
    /\ Committed(last.pkgdir) # {}
    /\ pkgdir = last.pkgdir

\* the entries of a package directory no package can be parsed from
MalformedIn(dir) == {e \in Committed(dir) : parseName(e).err # Nil}
\* the well-formed installed packages of a name
WellFormedAs(dir, name) ==
    {e \in Committed(dir) : parseName(e).err = Nil /\ parseName(e).pkg.Name = name}

(***************************************************************************)
(* C28.  When pkgdir holds a malformed non-hidden entry beside well-formed *)
(* packages, Del(name) still evicts every well-formed installed package    *)
(* called name, wherever the malformed entry is in the directory.          *)
(***************************************************************************)
C28_DelDespiteMalformed ==
    (/\ last.op = "Del" /\ last.name # Empty
     /\ MalformedIn(last.pkgdir) # {})
        => WellFormedAs(pkgdir, last.name) = {}

(***************************************************************************)
(* C29.  The enumeration is demand-driven: once the consumer of List has   *)
(* answered false to an element, package or error, no further element is   *)
(* yielded and no further batch of the directory is read; and the          *)
(* directory handle is released when the iterator returns, on early        *)
(* termination, on normal completion and on a read error.                  *)
(***************************************************************************)
C29_DemandDriven ==
    last.op = "iter"
        => /\ last.stopped
                  => /\ last.pc = "done"
                     /\ Len(last.out) = last.at[1]
                     /\ last.reads = last.at[2]
           /\ last.pc = "done" => last.handle # "open"
           /\ last.handle = "closed" => last.pc = "done"
\* the consumer stopped at a package of the first batch of a directory that
\* takes two batches, after it had gone on past a parse error
C29_Witness ==
    /\ last.op = "iter" /\ last.stopped /\ last.handle = "closed"
    /\ last.rest # << >>
    /\ Len(last.out) > 1
    /\ last.out[Len(last.out)].err = Nil
    /\ \E k \in 1..Len(last.out) : last.out[k].err = ErrBadPackageName

\* what Query is to return for the name n: the entry of the installed package,
\* with the metadata of the index when the index has the name, or the entry of
\* the index alone
C25_Indexed ==
    IF last.opts.OnlyLocal THEN {} ELSE Range(last.index.plugins)
C25_Names ==
    {parseName(e).pkg.Name : e \in Committed(pkgdir)} \cup {p.Id : p \in C25_Indexed}
C25_Reference(n) ==
    IF VersionsOf(pkgdir, n) # {} /\ \E p \in C25_Indexed : p.Id = n
    THEN {Integration(n, p.DisplayName, p.Tags, p.Types, "installed", v, TRUE) :
              p \in {q \in C25_Indexed : q.Id = n}, v \in VersionsOf(pkgdir, n)}
    ELSE IF VersionsOf(pkgdir, n) # {}
    THEN {Integration(n, n, << >>, IntegrationTypes(FALSE, FALSE, FALSE),
                      "installed", v, FALSE) : v \in VersionsOf(pkgdir, n)}
    ELSE {Integration(n, p.DisplayName, p.Tags, p.Types, "not-installed", Empty, TRUE) :
              p \in {q \in C25_Indexed : q.Id = n}}
C25_Matches(e) ==
    /\ last.opts.Type = "storage" => e.Types.Storage
    /\ last.opts.Type = "source" => e.Types.Source
    /\ last.opts.Tag # "" => last.opts.Tag \in Range(e.Tags)
    /\ last.opts.Status # "" => last.opts.Status = e.Installation.Status

(***************************************************************************)
(* C25.  Query returns the merge of the installed packages and the remote  *)
(* index, one entry per name, sorted by name: installed and indexed is     *)
(* 'installed' with the installed version, the metadata of the index and   *)
(* available; installed and not indexed is 'installed' and not available;  *)
(* indexed only is 'not-installed' and available; with OnlyLocal nothing   *)
(* is fetched and only installed entries are returned; the type, tag and   *)
(* status filters keep exactly the entries that match.                     *)
(***************************************************************************)
C25_QueryMerge ==
    (last.op = "Query" /\ last.r.err = Nil)
        => /\ \A k \in 1..(Len(last.r.ret) - 1) :
                  CompareBytes(last.r.ret[k].Name, last.r.ret[k + 1].Name) < 0
           /\ \A k \in 1..Len(last.r.ret) :
                  /\ last.r.ret[k] \in C25_Reference(last.r.ret[k].Name)
                  /\ C25_Matches(last.r.ret[k])
           /\ \A n \in C25_Names :
                  (\E e \in C25_Reference(n) : C25_Matches(e))
                      => \E k \in 1..Len(last.r.ret) : last.r.ret[k].Name = n
           /\ last.opts.OnlyLocal => ~last.r.fetched

\* the request hook of the call leaves the Authorization header empty and
\* returns no error
C22_HookSetsNothing ==
    \/ last.hook.kind = "nil"
    \/ last.hook.kind = "bearer" /\ last.hook.fn.token = Empty /\ last.hook.fn.err = Nil
    \/ last.hook.kind = "custom" /\ last.hook.set = Empty /\ last.hook.err = Nil
\* the error the request hook of the call returns
C22_HookError ==
    IF last.hook.kind = "bearer" THEN last.hook.fn.err
    ELSE IF last.hook.kind = "custom" THEN last.hook.err
    ELSE Nil

(***************************************************************************)
(* C22.  For a fetch flagged as requiring authorization: when the request  *)
(* hook is absent, or runs without setting an Authorization header (as     *)
(* WithBearer does with an empty token), fetch returns                     *)
(* ErrAuthorizationRequired and no request is sent; when the hook returns  *)
(* an error, that error is returned and no request is sent either.         *)
(***************************************************************************)
C22_AuthorizationRequired ==
    (last.op = "fetch" /\ last.reqauth /\ ~last.badurl)
        => /\ C22_HookSetsNothing
                  => last.r.err = ErrAuthorizationRequired /\ ~last.r.sent
           /\ C22_HookError # Nil
                  => last.r.err = C22_HookError /\ ~last.r.sent
\* WithBearer with an empty token: the hook ran, and the fetch was refused
C22_Witness ==
    /\ last.op = "fetch" /\ last.reqauth
    /\ last.hook.kind = "bearer" /\ last.hook.fn.token = Empty /\ last.hook.fn.err = Nil
    /\ last.r.ran /\ ~last.r.sent
    /\ last.r.err = ErrAuthorizationRequired

\* no name has more than one committed version in dir
SingleVersion(dir) ==
    \A e \in Committed(dir) :
        Cardinality(InstalledAs(dir, parseName(e).pkg.Name)) <= 1

(***************************************************************************)
(* C31.  Single-version invariant: a call of Add that does not set         *)
(* AllowMultipleVersions (no flag, Replace, Upgrade or Downgrade, whether  *)
(* it succeeds or fails) and a call of Del, made on a store that holds at  *)
(* most one committed version of every name, leave a store that holds at   *)
(* most one committed version of every name; the empty store is such a     *)
(* store, so every sequence of such calls keeps the property.              *)
(***************************************************************************)
C31_SingleVersionKept ==
    [][(/\ SingleVersion(pkgdir)
        /\ last'.op \in {"Add", "Del"}
        /\ last'.op = "Add" => ~last'.opts.AllowMultipleVersions)
           => SingleVersion(pkgdir')]_vars
\* an Add without AllowMultipleVersions installed a version of a name that had
\* another version installed, and one version is left
C31_Witness ==
    /\ Added /\ last.err = Nil /\ ~last.opts.AllowMultipleVersions
    /\ SingleVersion(last.pkgdir)
    /\ VersionsOf(last.pkgdir, last.name) \notin {{}, {last.version}}
    /\ VersionsOf(pkgdir, last.name) = {last.version}

(***************************************************************************)
(* C32.  The committed artifacts are durable across rehydration: after     *)
(* LoadAll returns, with an error or without, every canonical artifact     *)
(* that was in pkgdir before the call is still there.                      *)
(***************************************************************************)
C32_RehydrationKeepsArtifacts ==
    (last.op = "steps" /\ last.done.op = "LoadAll")
        => Committed(last.done.pkgdir) \subseteq Committed(pkgdir)

\* the call was a Load of an identity whose canonical artifact was committed
\* and whose extraction directory existed
C33_AlreadyInstalled ==
    /\ last.op = "Load"
    /\ \E e \in Committed(last.pkgdir) :
           /\ parseName(e).pkg.Name = last.name
           /\ parseName(e).pkg.Version = last.version
           /\ ExtractionOf(e) \in last.cachedir

(***************************************************************************)
(* C33.  A Load for an identity whose canonical artifact is already        *)
(* committed, and whose extraction directory exists, returns an error and  *)
(* leaves the installation intact: the artifact and its extraction         *)
(* directory are both still there after the failed call and its rollback.  *)
(***************************************************************************)
C33_ReloadOfInstalledKeepsIt ==
    C33_AlreadyInstalled
        => /\ last.err # Nil
           /\ \A e \in Committed(last.pkgdir) :
                  (parseName(e).pkg.Name = last.name
                       /\ parseName(e).pkg.Version = last.version)
                      => e \in Committed(pkgdir) /\ ExtractionOf(e) \in cachedir

(***************************************************************************)
(* C34.  No orphaned extraction directories: in every state reached by a   *)
(* sequence of Load, Unload, LoadAll, Add and Del calls made in turn on a  *)
(* store that starts empty, whether the calls succeed or fail, cachedir    *)
(* holds the extraction directory of an identity only if pkgdir holds the  *)
(* canonical artifact of that identity.                                    *)
(***************************************************************************)
C34_NoOrphanedExtraction ==
    \A d \in cachedir : (d \o PtarExt) \in Committed(pkgdir)
\* a call failed and rolled back on a store that keeps an installed package
\* with its extraction directory
C34_Witness ==
    /\ last # NoCall /\ last.op \in {"Load", "Add", "LoadAll"} /\ last.err # Nil
    /\ (pkgdir # last.pkgdir \/ cachedir # last.cachedir)
    /\ cachedir # {}

====
